---- MODULE Spec2Model ----
(***************************************************************************)
(* Daily painting bot: prompt generation (Perplexity client with retry,    *)
(* prompt generator with fallback catalog), WhatsApp bulk delivery and the *)
(* scheduler's daily batch run.                                            *)
(*                                                                         *)
(* Strings are sequences of atoms (an atom is a non-empty chunk of text,   *)
(* " " is a whitespace atom, "-" the hyphen), so that concatenation,       *)
(* split and trim are computed and not assumed.                            *)
(***************************************************************************)
EXTENDS Integers, Sequences, FiniteSets, TLC

VARIABLES
    users,          \* the users table: phone number -> row
    maxRetries,     \* PerplexityClient.maxRetries
    clientDb,       \* PerplexityClient.db / WhatsAppClient.db is non-null
    logStore,       \* behaviour of the D1 log tables: "up", "down", "flaky"
    usageLog,       \* rows of api_usage_logs
    deliveryLog,    \* rows of delivery_logs
    cl,             \* the running generateTextPrompt / generateImage call
    fetches,        \* external generation requests made by the current call
    slept,          \* delays slept by the current call, in order
    pg,             \* the running generatePromptWithRetry call
    bulk,           \* the running sendBulkMessages call
    sendAttempts,   \* single sends made by the current bulk call, in order
    pc,             \* position of executeDailyDelivery
    activeUsers,    \* the snapshot read by getAllActiveUsers
    combinations,   \* the Set of combination keys, in insertion order
    combIdx,        \* position of the generation loop in combinations
    prompts,        \* the Map combination key -> PaintingPrompt
    recIdx,         \* position of the timestamp loop in activeUsers
    report,         \* the DeliveryReport returned by the run
    genCalls,       \* arguments of the generatePromptWithRetry calls of the run
    tsRequests,     \* phone numbers passed to updateLastPromptSent in the run
    od,             \* the message being routed by the webhook
    fb,             \* the getFallbackPrompt / hasFallbackPrompts calls of a caller
    wh              \* the running handleIncomingMessage call

vars == <<users, maxRetries, clientDb, logStore, usageLog, deliveryLog, cl,
          fetches, slept, pg, bulk, sendAttempts, pc, activeUsers,
          combinations, combIdx, prompts, recIdx, report, genCalls,
          tsRequests, od, fb, wh>>

----------------------------------------------------------------------------
(* Bounds of the model *)

MaxUsers == 2
MaxMsgs == 3
MaxRetriesCfg == 3
RandomGrain == 3
MaxFallbackCalls == 2
MaxMessageLen == 4
MaxLeadLen == 3
MaxPayloadLen == 2

(* Program constants *)

DefaultMaxRetries == 3
RetryDelayMs == 1000
CallerMaxRetries == 3
MinKeywordLength == 3
MaxKeywords == 10

----------------------------------------------------------------------------
(* Strings *)

Pow2(n) == IF n <= 0 THEN 1 ELSE 2 ^ n

RECURSIVE TrimStart(_)
TrimStart(s) ==
    IF s # <<>> /\ Head(s) = " " THEN TrimStart(Tail(s)) ELSE s

RECURSIVE TrimEnd(_)
TrimEnd(s) ==
    IF s # <<>> /\ s[Len(s)] = " " THEN TrimEnd(SubSeq(s, 1, Len(s) - 1)) ELSE s

Trim(s) == TrimEnd(TrimStart(s))

\* String.prototype.split(sep): the pieces between the separator atoms
RECURSIVE SplitFrom(_, _, _)
SplitFrom(s, sep, cur) ==
    IF s = <<>> THEN <<cur>>
    ELSE IF Head(s) = sep THEN <<cur>> \o SplitFrom(Tail(s), sep, <<>>)
    ELSE SplitFrom(Tail(s), sep, Append(cur, Head(s)))

Split(s, sep) == SplitFrom(s, sep, <<>>)

\* String.prototype.toLowerCase on the atoms that hold capitals
LowerCaseAtom(a) ==
    CASE a = "HELP" -> "help"
      [] a = "Subscribe" -> "subscribe"
      [] a = "EN" -> "en"
      [] a = "The" -> "the"
      [] a = "Misty" -> "misty"
      [] OTHER -> a

ToLowerCase(s) == [i \in 1 .. Len(s) |-> LowerCaseAtom(s[i])]

----------------------------------------------------------------------------
(* Types *)

SkillLevels == {<<"beginner">>, <<"intermediate">>, <<"advanced">>}
Languages == {<<"ro">>, <<"en">>}
Phones == 1 .. MaxUsers

Undefined == <<"undefined">>

----------------------------------------------------------------------------
(* Fallback catalog *)

FallbackEntry(name) ==
    [text |-> <<name>>,
     imageUrl |-> <<"https://imagedelivery.net/placeholder/", name, ".jpg">>]

FallbackKeys ==
    {<<"beginner", "-", "ro">>, <<"beginner", "-", "en">>,
     <<"intermediate", "-", "ro">>, <<"intermediate", "-", "en">>,
     <<"advanced", "-", "ro">>, <<"advanced", "-", "en">>}

fallbackPromptsData ==
    [k \in FallbackKeys |->
        CASE k = <<"beginner", "-", "ro">> ->
                <<FallbackEntry("beginner-sunset-ro"),
                  FallbackEntry("beginner-apples-ro"),
                  FallbackEntry("beginner-tree-seasons-ro")>>
          [] k = <<"beginner", "-", "en">> ->
                <<FallbackEntry("beginner-sunset-en"),
                  FallbackEntry("beginner-apples-en"),
                  FallbackEntry("beginner-tree-seasons-en")>>
          [] k = <<"intermediate", "-", "ro">> ->
                <<FallbackEntry("intermediate-cityscape-ro"),
                  FallbackEntry("intermediate-portrait-ro"),
                  FallbackEntry("intermediate-forest-ro")>>
          [] k = <<"intermediate", "-", "en">> ->
                <<FallbackEntry("intermediate-cityscape-en"),
                  FallbackEntry("intermediate-portrait-en"),
                  FallbackEntry("intermediate-forest-en")>>
          [] k = <<"advanced", "-", "ro">> ->
                <<FallbackEntry("advanced-abstract-nostalgia-ro"),
                  FallbackEntry("advanced-figurative-ro"),
                  FallbackEntry("advanced-hyperrealistic-ro")>>
          [] OTHER ->
                <<FallbackEntry("advanced-abstract-nostalgia-en"),
                  FallbackEntry("advanced-figurative-en"),
                  FallbackEntry("advanced-hyperrealistic-en")>>]

\* fallbackPromptsData[key], with undefined read as the empty list
CatalogLookup(key) ==
    IF key \in DOMAIN fallbackPromptsData THEN fallbackPromptsData[key] ELSE <<>>

\* Math.floor(Math.random() * n) for the draw r / RandomGrain of [0, 1)
RandomIndex(r, n) == (r * n) \div RandomGrain

UltimateFallback ==
    [text |-> <<"Paint something that inspires you today.">>,
     imageUrl |-> <<"https://imagedelivery.net/placeholder/default.jpg">>]

WithPair(entry, skillLevel, language) ==
    [text |-> entry.text, imageUrl |-> entry.imageUrl,
     skillLevel |-> skillLevel, language |-> language]

\* mutant: the candidates are always taken from the English list
getFallbackPromptEnglish(skillLevel, language, r) ==
    LET fallbackList == CatalogLookup(skillLevel \o <<"-">> \o <<"en">>)
    IN  IF Len(fallbackList) = 0
        THEN WithPair(UltimateFallback, skillLevel, language)
        ELSE WithPair(fallbackList[RandomIndex(r, Len(fallbackList)) + 1],
                      skillLevel, language)

\* mutant: a lookup miss goes straight to the hard-coded prompt
getFallbackPromptNoDefault(skillLevel, language, r) ==
    LET list == CatalogLookup(skillLevel \o <<"-">> \o language)
    IN  IF Len(list) = 0
        THEN WithPair(UltimateFallback, skillLevel, language)
        ELSE WithPair(list[RandomIndex(r, Len(list)) + 1], skillLevel, language)

getFallbackPrompt(skillLevel, language, r) ==
    LET key == skillLevel \o <<"-">> \o language
        list == CatalogLookup(key)
        fallbackKey == skillLevel \o <<"-">> \o <<"en">>
        fallbackList == CatalogLookup(fallbackKey)
    IN  IF Len(list) = 0
        THEN IF Len(fallbackList) = 0
             THEN WithPair(UltimateFallback, skillLevel, language)
             ELSE WithPair(fallbackList[RandomIndex(r, Len(fallbackList)) + 1],
                           skillLevel, language)
        ELSE WithPair(list[RandomIndex(r, Len(list)) + 1], skillLevel, language)

\* `prompts !== undefined && prompts.length > 0`
hasFallbackPrompts(skillLevel, language) ==
    Len(CatalogLookup(skillLevel \o <<"-">> \o language)) > 0

\* the arguments a caller can pass at run time: the values of the types and,
\* as the types are not checked at run time, a value outside each of them
FallbackSkillInputs == SkillLevels \cup {<<"expert">>}
FallbackLanguageInputs == Languages \cup {<<"fr">>}

\* a caller of the catalog: its arguments, the number of getFallbackPrompt
\* calls made with them, the latest and the previous result (none: <<>>), and
\* the answer of hasFallbackPrompts (not asked: <<>>)
FbIdle ==
    [skillLevel |-> <<>>, language |-> <<>>, calls |-> 0, result |-> <<>>,
     previous |-> <<>>, has |-> <<>>]

FbArgs(skillLevel, language) ==
    [skillLevel |-> skillLevel, language |-> language, calls |-> 0,
     result |-> <<>>, previous |-> <<>>, has |-> <<>>]

----------------------------------------------------------------------------
(* Usage and delivery logs *)

\* whether one INSERT into a log table succeeds
LogWriteOutcomes ==
    CASE logStore = "up" -> {TRUE}
      [] logStore = "down" -> {FALSE}
      [] OTHER -> BOOLEAN

\* logApiUsage: the insert's failure is caught and only logged locally
logApiUsage(log, params, written) ==
    IF written THEN Append(log, params) ELSE log

\* `if (this.db) { await logApiUsage(this.db, ...) }`
ClientLog(params, written) ==
    IF clientDb THEN logApiUsage(usageLog, params, written) ELSE usageLog

\* mutant: logApiUsage without its try/catch, the insert's error leaves it
LogWriteRaisesUncaught(written) == ~written

\* whether a logApiUsage call raises: its catch block keeps every error
LogWriteRaises(written) == FALSE

\* whether `if (this.db) { await logApiUsage(this.db, ...) }` raises
ClientLogRaises(written) == clientDb /\ LogWriteRaises(written)

UsageRecord(service, operation, success) ==
    [service |-> service, operation |-> operation, success |-> success,
     hasError |-> ~success]

\* logDeliveryReport: same shape as logApiUsage
logDeliveryReport(log, params, written) ==
    IF written THEN Append(log, params) ELSE log

\* whether a logDeliveryReport call raises: its catch block keeps every error
DeliveryLogRaises(written) == FALSE

----------------------------------------------------------------------------
(* Perplexity client *)

GoodIdea == <<"misty", " ", "harbour">>
GeneratedImageUrl == <<"https://api.perplexity.ai/", "img-1", ".png">>

\* what one POST to /chat/completions can come back with
TextApiResponses ==
    {[fetch |-> "throws"], [fetch |-> "non2xx"],
     [fetch |-> "ok", choices |-> 0, content |-> Undefined, isString |-> FALSE],
     [fetch |-> "ok", choices |-> 1, content |-> Undefined, isString |-> FALSE],
     [fetch |-> "ok", choices |-> 1, content |-> <<"42">>, isString |-> FALSE],
     [fetch |-> "ok", choices |-> 1, content |-> <<>>, isString |-> TRUE],
     [fetch |-> "ok", choices |-> 1, content |-> <<" ", " ">>, isString |-> TRUE],
     [fetch |-> "ok", choices |-> 1, content |-> <<" ">> \o GoodIdea \o <<" ">>,
      isString |-> TRUE],
     [fetch |-> "ok", choices |-> 1, content |-> GoodIdea, isString |-> TRUE]}

\* what one POST to /images/generations can come back with
ImageApiResponses ==
    {[fetch |-> "throws"], [fetch |-> "non2xx"],
     [fetch |-> "ok", data |-> 0, url |-> Undefined, isString |-> FALSE],
     [fetch |-> "ok", data |-> 1, url |-> Undefined, isString |-> FALSE],
     [fetch |-> "ok", data |-> 1, url |-> <<"42">>, isString |-> FALSE],
     [fetch |-> "ok", data |-> 1, url |-> <<>>, isString |-> TRUE],
     [fetch |-> "ok", data |-> 1, url |-> GeneratedImageUrl, isString |-> TRUE]}

Threw == [ok |-> FALSE, value |-> <<>>]
Returned(v) == [ok |-> TRUE, value |-> v]

\* callPerplexityAPI: throws on a transport error and on a non-2xx status
callPerplexityAPI(resp) ==
    IF resp.fetch # "ok" THEN Threw ELSE Returned(resp)

\* mutant: the content is returned as it came, without the checks after trim
extractPaintingIdeaUntrimmed(response) ==
    IF response.choices = 0 THEN Threw
    ELSE IF response.content = Undefined \/ response.content = <<>>
            \/ ~response.isString THEN Threw
    ELSE Returned(response.content)

extractPaintingIdea(response) ==
    IF response.choices = 0 THEN Threw
    ELSE IF response.content = Undefined \/ response.content = <<>>
            \/ ~response.isString THEN Threw
    ELSE IF Len(Trim(response.content)) = 0 THEN Threw
    ELSE Returned(Trim(response.content))

\* the try block of one generateTextPrompt attempt, up to the usage log
TextAttempt(resp) ==
    LET r == callPerplexityAPI(resp)
    IN  IF r.ok THEN extractPaintingIdea(r.value) ELSE Threw

callPerplexityImageAPI(resp) ==
    IF resp.fetch # "ok" THEN Threw
    ELSE IF resp.data = 0 THEN Threw
    ELSE IF resp.url = Undefined \/ resp.url = <<>> \/ ~resp.isString THEN Threw
    ELSE Returned(resp.url)

\* the filler words of extractVisualKeywords
fillerWords ==
    {"the", "a", "an", "and", "or", "but", "in", "on", "at", "to", "for", "of",
     "with", "by", "from", "up", "about", "into", "through", "during", "before",
     "after", "above", "below", "between", "under", "again", "further", "then",
     "once", "here", "there", "when", "where", "why", "how", "all", "both",
     "each", "few", "more", "most", "other", "some", "such", "only", "own",
     "same", "so", "than", "too", "very", "can", "will", "just", "should", "now"}

\* the atoms that /[^\w\s]/ matches: punctuation, and a letter with a
\* diacritic (written with an apostrophe), which \w does not cover
NonWordAtoms == {",", ".", "a'"}

\* replace(/[^\w\s]/g, ' ')
StripNonWord(s) == [i \in 1 .. Len(s) |-> IF s[i] \in NonWordAtoms THEN " " ELSE s[i]]

\* word.length, the characters of the atoms of a word
RECURSIVE WordLength(_)
WordLength(w) == IF w = <<>> THEN 0 ELSE Len(Head(w)) + WordLength(Tail(w))

\* fillerWords.includes(word)
IsFiller(w) == Len(w) = 1 /\ w[1] \in fillerWords

\* mutant: the filter looks at the filler words only
IsKeywordCandidateAnyLength(w) == w # <<>> /\ ~IsFiller(w)

\* `word.length > 3 && !fillerWords.includes(word)`
IsKeywordCandidate(w) == WordLength(w) > MinKeywordLength /\ ~IsFiller(w)

\* [...new Set(words)]: the first occurrences, in order
RECURSIVE UniqueWords(_, _)
UniqueWords(words, acc) ==
    IF words = <<>> THEN acc
    ELSE UniqueWords(Tail(words),
                     IF \E i \in 1 .. Len(acc) : acc[i] = Head(words)
                     THEN acc ELSE Append(acc, Head(words)))

\* slice(0, n)
Slice(s, n) == SubSeq(s, 1, IF Len(s) < n THEN Len(s) ELSE n)

\* join(' ')
RECURSIVE Join(_)
Join(words) ==
    IF words = <<>> THEN <<>>
    ELSE IF Len(words) = 1 THEN words[1]
    ELSE words[1] \o <<" ">> \o Join(Tail(words))

\* extractVisualKeywords; the empty pieces that split(/\s+/) does not produce
\* between adjacent spaces are removed by the filter
extractVisualKeywords(promptText) ==
    LET words == SelectSeq(Split(StripNonWord(ToLowerCase(promptText)), " "),
                           IsKeywordCandidate)
        uniqueWords == Slice(UniqueWords(words, <<>>), MaxKeywords)
    IN  Join(uniqueWords)

\* the delay slept after failed attempt number `attempt` (counted from 0)
BackoffDelay(attempt) == RetryDelayMs * Pow2(attempt)

\* mutant: no failed attempt is taken for the last one
IsLastAttemptNever(attempt) == FALSE

\* `attempt === this.maxRetries - 1`
IsLastAttempt(attempt) == attempt = maxRetries - 1

\* promptText: the text generateImage was called with
\* keywords: the visual keywords generateImage took from it
\* lastOk: the latest request of the call came back with a usable answer
\* reported: the records the call has passed to logApiUsage, in order
ClientIdle ==
    [state |-> "idle", op |-> "none", promptText |-> <<>>, keywords |-> <<>>,
     attempt |-> 0, result |-> <<>>, lastOk |-> FALSE, reported |-> <<>>]
ClientStart(op) ==
    [state |-> "try", op |-> op, promptText |-> <<>>, keywords |-> <<>>,
     attempt |-> 0, result |-> <<>>, lastOk |-> FALSE, reported |-> <<>>]

\* generateImage has been called with a text and has not run yet
ImageCalled(promptText) ==
    [ClientIdle EXCEPT !.state = "called", !.op = "image",
                       !.promptText = promptText]

\* generateImage, up to its retry loop
ImageCallEntry ==
    /\ cl.state = "called" /\ cl.op = "image"
    /\ cl' = [ClientStart("image") EXCEPT
                !.promptText = cl.promptText,
                !.keywords = extractVisualKeywords(cl.promptText)]
    /\ fetches' = 0
    /\ slept' = <<>>
    /\ UNCHANGED <<od, fb, users, maxRetries, wh, clientDb, logStore, usageLog,
                   deliveryLog, pg, bulk, sendAttempts, pc, activeUsers,
                   combinations, combIdx, prompts, recIdx, report, genCalls,
                   tsRequests>>

\* `if (this.db) { await logApiUsage(this.db, params) }`: the records passed
Reported(params) == IF clientDb THEN Append(cl.reported, params) ELSE cl.reported

\* one iteration of a retry loop, given the attempt's outcome r; the usage
\* record of a success is written inside the try block, so an error leaving
\* logApiUsage would be caught as a failed attempt
RetryIteration(r, service, operation) ==
    /\ fetches' = fetches + 1
    /\ \E written \in LogWriteOutcomes :
         IF r.ok /\ ~ClientLogRaises(written)
         THEN /\ usageLog' = ClientLog(UsageRecord(service, operation, TRUE), written)
              /\ cl' = [cl EXCEPT !.state = "returned", !.result = r.value,
                                  !.lastOk = TRUE,
                                  !.reported = Reported(UsageRecord(
                                      service, operation, TRUE))]
              /\ UNCHANGED slept
         ELSE IF IsLastAttempt(cl.attempt)
         THEN /\ usageLog' = ClientLog(UsageRecord(service, operation, FALSE), written)
              /\ cl' = [cl EXCEPT !.state = "raised", !.lastOk = r.ok,
                                  !.reported = Reported(UsageRecord(
                                      service, operation, FALSE))]
              /\ UNCHANGED slept
         ELSE /\ slept' = Append(slept, BackoffDelay(cl.attempt))
              /\ cl' = [cl EXCEPT !.attempt = @ + 1, !.lastOk = r.ok]
              /\ UNCHANGED usageLog

\* mutant: the loop condition written with <=
LoopContinuesOffByOne(attempt) == attempt <= maxRetries

\* mutant: the loop is bounded by the argument of generatePromptWithRetry
LoopContinuesUsesArgument(attempt) == attempt < pg.maxRetries

\* `attempt < this.maxRetries`
LoopContinues(attempt) == attempt < maxRetries

\* generateTextPrompt: one pass through the body of the for loop
GenerateTextAttempt ==
    /\ cl.state = "try" /\ cl.op = "text"
    /\ LoopContinues(cl.attempt)
    /\ \E resp \in TextApiResponses :
         RetryIteration(TextAttempt(resp), "perplexity", "generate_text_prompt")
    /\ UNCHANGED <<od, fb, users, maxRetries, wh, clientDb, logStore, deliveryLog, pg, bulk,
                   sendAttempts, pc, activeUsers, combinations, combIdx, prompts,
                   recIdx, report, genCalls, tsRequests>>

\* generateImage: one pass through the body of the for loop
GenerateImageAttempt ==
    /\ cl.state = "try" /\ cl.op = "image"
    /\ LoopContinues(cl.attempt)
    /\ \E resp \in ImageApiResponses :
         RetryIteration(callPerplexityImageAPI(resp), "image_generation",
                        "generate_image")
    /\ UNCHANGED <<od, fb, users, maxRetries, wh, clientDb, logStore, deliveryLog, pg, bulk,
                   sendAttempts, pc, activeUsers, combinations, combIdx, prompts,
                   recIdx, report, genCalls, tsRequests>>

\* either loop left without returning: throw 'Unexpected error in retry logic'
RetryLoopExit ==
    /\ cl.state = "try"
    /\ ~LoopContinues(cl.attempt)
    /\ cl' = [cl EXCEPT !.state = "raised"]
    /\ UNCHANGED <<od, fb, users, maxRetries, wh, clientDb, logStore, usageLog, deliveryLog,
                   fetches, slept, pg, bulk, sendAttempts, pc, activeUsers,
                   combinations, combIdx, prompts, recIdx, report, genCalls,
                   tsRequests>>

----------------------------------------------------------------------------
(* Prompt generator *)

NoPrompt == [text |-> <<>>, imageUrl |-> <<>>, skillLevel |-> <<>>, language |-> <<>>]

\* maxRetries: the third argument of generatePromptWithRetry
PgIdle == [state |-> "idle", skillLevel |-> <<>>, language |-> <<>>,
           maxRetries |-> 0, text |-> <<>>, result |-> NoPrompt]

\* entry of generatePromptWithRetry -> generatePrompt -> generateTextPrompt
PgCall(skillLevel, language, maxRetriesArg) ==
    [state |-> "text", skillLevel |-> skillLevel, language |-> language,
     maxRetries |-> maxRetriesArg, text |-> <<>>, result |-> NoPrompt]

\* generatePrompt: the text came back, generateImage is called with it
PgTextReturned ==
    /\ pg.state = "text" /\ cl.state = "returned"
    /\ pg' = [pg EXCEPT !.state = "image", !.text = cl.result]
    /\ cl' = [ClientStart("image") EXCEPT
                !.promptText = cl.result,
                !.keywords = extractVisualKeywords(cl.result)]
    /\ fetches' = 0
    /\ slept' = <<>>
    /\ UNCHANGED <<od, fb, users, maxRetries, wh, clientDb, logStore, usageLog, deliveryLog,
                   bulk, sendAttempts, pc, activeUsers, combinations, combIdx,
                   prompts, recIdx, report, genCalls, tsRequests>>

\* generatePrompt: both calls returned
GeneratedPrompt(text, imageUrl, skillLevel, language) ==
    [text |-> text, imageUrl |-> imageUrl,
     skillLevel |-> skillLevel, language |-> language]

PgImageReturned ==
    /\ pg.state = "image" /\ cl.state = "returned"
    /\ pg' = [pg EXCEPT !.state = "returned",
                        !.result = GeneratedPrompt(pg.text, cl.result,
                                                   pg.skillLevel, pg.language)]
    /\ UNCHANGED <<od, fb, users, maxRetries, wh, clientDb, logStore, usageLog, deliveryLog,
                   cl, fetches, slept, bulk, sendAttempts, pc, activeUsers,
                   combinations, combIdx, prompts, recIdx, report, genCalls,
                   tsRequests>>

\* mutant: the catch block rethrows, as the one of generatePrompt does
OnGenerationErrorRethrow(skillLevel, language, r) ==
    [state |-> "raised", result |-> NoPrompt]

\* mutant: the fallback only fills in what generatePrompt had not produced
OnGenerationErrorKeepText(skillLevel, language, r) ==
    [state |-> "returned",
     result |-> [getFallbackPrompt(skillLevel, language, r) EXCEPT
                    !.text = IF pg.text # <<>> THEN pg.text ELSE @]]

\* the catch block of generatePromptWithRetry: how the call ends
OnGenerationError(skillLevel, language, r) ==
    [state |-> "returned", result |-> getFallbackPrompt(skillLevel, language, r)]

\* a client call raised: generatePrompt rethrows, generatePromptWithRetry catches
PgFallback ==
    /\ pg.state \in {"text", "image"} /\ cl.state = "raised"
    /\ \E r \in 0 .. RandomGrain - 1 :
         LET end == OnGenerationError(pg.skillLevel, pg.language, r)
         IN  pg' = [pg EXCEPT !.state = end.state, !.result = end.result]
    /\ UNCHANGED <<od, fb, users, maxRetries, wh, clientDb, logStore, usageLog, deliveryLog,
                   cl, fetches, slept, bulk, sendAttempts, pc, activeUsers,
                   combinations, combIdx, prompts, recIdx, report, genCalls,
                   tsRequests>>

----------------------------------------------------------------------------
(* WhatsApp client *)

\* what the fetch of one single send can do: a 2xx response with a JSON body,
\* a non-2xx response, a transport error, a 2xx response whose body is not JSON
FetchOutcomes == {"ok", "non2xx", "throws", "badjson"}

SendFailure(error) == [success |-> FALSE, error |-> error]
SendSuccess == [success |-> TRUE, error |-> <<>>]

\* sendMessage / sendMessageWithImage: every failure is returned as a value;
\* a transport error and an unparsable body both end in the catch block,
\* whose error detail is the caught exception's message
\* mutant: the body of a 2xx response is not parsed
SendResultBodyUnread(outcome) ==
    CASE outcome \in {"ok", "badjson"} -> SendSuccess
      [] outcome = "non2xx" -> SendFailure(<<"WhatsApp API error: ", "status">>)
      [] OTHER -> SendFailure(<<"error.message">>)

SendResult(outcome) ==
    CASE outcome = "ok" -> SendSuccess
      [] outcome = "non2xx" -> SendFailure(<<"WhatsApp API error: ", "status">>)
      [] OTHER -> SendFailure(<<"error.message">>)

sendMessage(outcome) == SendResult(outcome)
sendMessageWithImage(outcome) == SendResult(outcome)

\* whether a single send raises: only an error leaving one of its logApiUsage
\* calls could, the one of the catch block included
SendRaises(written) == ClientLogRaises(written)

\* `msg.imageUrl ? sendMessageWithImage(...) : sendMessage(...)`
SendOperation(msg) ==
    IF msg.imageUrl # <<>> THEN "send_message_with_image" ELSE "send_message"

BulkIdle ==
    [state |-> "idle", messages |-> <<>>, idx |-> 1, totalSent |-> 0,
     totalFailed |-> 0, failures |-> <<>>]

BulkCall(messages) ==
    [state |-> "running", messages |-> messages, idx |-> 1, totalSent |-> 0,
     totalFailed |-> 0, failures |-> <<>>]

\* mutant: a failed send is counted but not pushed to the failures list
BulkRecordNoPush(b, msg, result) ==
    IF result.success
    THEN [b EXCEPT !.totalSent = @ + 1, !.idx = @ + 1]
    ELSE [b EXCEPT !.totalFailed = @ + 1, !.idx = @ + 1]

\* mutant: the first failed send ends the loop
BulkRecordStopOnFailure(b, msg, result) ==
    IF result.success
    THEN [b EXCEPT !.totalSent = @ + 1, !.idx = @ + 1]
    ELSE [b EXCEPT !.totalFailed = @ + 1, !.idx = Len(b.messages) + 1,
                   !.failures = Append(@, [phoneNumber |-> msg.phoneNumber,
                                           error |-> result.error])]

\* the bookkeeping of sendBulkMessages for one message and its result
BulkRecord(b, msg, result) ==
    IF result.success
    THEN [b EXCEPT !.totalSent = @ + 1, !.idx = @ + 1]
    ELSE [b EXCEPT !.totalFailed = @ + 1, !.idx = @ + 1,
                   !.failures = Append(@, [phoneNumber |-> msg.phoneNumber,
                                           error |-> result.error])]

\* sendBulkMessages: one pass through the body of the for loop
BulkSendNext ==
    /\ bulk.state = "running"
    /\ bulk.idx <= Len(bulk.messages)
    /\ \E outcome \in FetchOutcomes, written \in LogWriteOutcomes :
         LET msg == bulk.messages[bulk.idx]
             op == SendOperation(msg)
             result == IF op = "send_message_with_image"
                       THEN sendMessageWithImage(outcome)
                       ELSE sendMessage(outcome)
         IN  /\ sendAttempts' = Append(sendAttempts,
                                       [phoneNumber |-> msg.phoneNumber,
                                        operation |-> op,
                                        success |-> result.success])
             /\ usageLog' = ClientLog(UsageRecord("whatsapp", op, result.success),
                                      written)
             /\ bulk' = IF SendRaises(written)
                        THEN [bulk EXCEPT !.state = "raised"]
                        ELSE BulkRecord(bulk, msg, result)
    /\ UNCHANGED <<od, fb, users, maxRetries, wh, clientDb, logStore, deliveryLog, cl, fetches,
                   slept, pg, pc, activeUsers, combinations, combIdx, prompts,
                   recIdx, report, genCalls, tsRequests>>

\* sendBulkMessages: after the loop, the summary record and the return
BulkReturn ==
    /\ bulk.state = "running"
    /\ bulk.idx > Len(bulk.messages)
    /\ \E written \in LogWriteOutcomes :
         /\ usageLog' = ClientLog(UsageRecord("whatsapp", "send_bulk_messages",
                                              bulk.totalFailed = 0), written)
         /\ bulk' = [bulk EXCEPT !.state = IF ClientLogRaises(written)
                                           THEN "raised" ELSE "returned"]
    /\ UNCHANGED <<od, fb, users, maxRetries, wh, clientDb, logStore, deliveryLog, cl, fetches,
                   slept, pg, sendAttempts, pc, activeUsers, combinations, combIdx,
                   prompts, recIdx, report, genCalls, tsRequests>>

----------------------------------------------------------------------------
(* User repository *)

\* rows of the users table as createUser / deactivateUser leave them
UserRow(skillLevel, language, isActive) ==
    [skillLevel |-> skillLevel, language |-> language, isActive |-> isActive,
     lastPromptSent |-> "null", updatedAt |-> "created"]

\* the (skill level, language) profiles of the subscribers of the batch runs:
\* two that share the skill level and two that share the language
BatchProfiles ==
    {<<<<"beginner">>, <<"ro">>>>, <<<<"beginner">>, <<"en">>>>,
     <<<<"advanced">>, <<"en">>>>}

UserRows == {UserRow(pr[1], pr[2], a) : pr \in BatchProfiles, a \in BOOLEAN}

\* mapRowToUser
mapRowToUser(p) ==
    [phoneNumber |-> p, skillLevel |-> users[p].skillLevel,
     language |-> users[p].language, lastPromptSent |-> users[p].lastPromptSent,
     isActive |-> users[p].isActive]

\* SELECT * FROM users WHERE is_active = 1, in rowid order
RECURSIVE ActiveFrom(_)
ActiveFrom(p) ==
    IF p > MaxUsers THEN <<>>
    ELSE IF p \in DOMAIN users /\ users[p].isActive
         THEN <<mapRowToUser(p)>> \o ActiveFrom(p + 1)
         ELSE ActiveFrom(p + 1)

getAllActiveUsers == ActiveFrom(1)

\* SELECT * FROM users WHERE phone_number = ?: the user, or null as <<>>
getUser(phoneNumber) ==
    IF phoneNumber \in DOMAIN users THEN <<mapRowToUser(phoneNumber)>> ELSE <<>>

\* UPDATE users SET is_active = 0, updated_at = ? WHERE phone_number = ?
deactivateUser(table, phoneNumber) ==
    IF phoneNumber \in DOMAIN table
    THEN [table EXCEPT ![phoneNumber].isActive = FALSE,
                       ![phoneNumber].updatedAt = "now"]
    ELSE table

\* UPDATE users SET skill_level = ?, updated_at = ? WHERE phone_number = ?
updateSkillLevel(table, phoneNumber, skillLevel) ==
    IF phoneNumber \in DOMAIN table
    THEN [table EXCEPT ![phoneNumber].skillLevel = skillLevel,
                       ![phoneNumber].updatedAt = "now"]
    ELSE table

\* UPDATE users SET language = ?, updated_at = ? WHERE phone_number = ?
updateLanguage(table, phoneNumber, language) ==
    IF phoneNumber \in DOMAIN table
    THEN [table EXCEPT ![phoneNumber].language = language,
                       ![phoneNumber].updatedAt = "now"]
    ELSE table

\* whether a statement sent to D1 by a handler comes back or throws
DbOutcomes == {"ok", "throws"}

\* UPDATE users SET last_prompt_sent = ?, updated_at = ? WHERE phone_number = ?
updateLastPromptSent(table, phoneNumber) ==
    IF phoneNumber \in DOMAIN table
    THEN [table EXCEPT ![phoneNumber].lastPromptSent = "now",
                       ![phoneNumber].updatedAt = "now"]
    ELSE table

----------------------------------------------------------------------------
(* Scheduler *)

getCombinationKey(skillLevel, language) == skillLevel \o <<"-">> \o language

\* `const [skillLevel, language] = key.split('-')`
parseCombinationKey(key) ==
    LET parts == Split(key, "-")
    IN  <<IF Len(parts) >= 1 THEN parts[1] ELSE Undefined,
          IF Len(parts) >= 2 THEN parts[2] ELSE Undefined>>

SeqRange(s) == {s[i] : i \in 1 .. Len(s)}

\* mutant: a list push instead of Set.add
SetAddAlways(s, x) == Append(s, x)

\* Set.add: insertion order, no duplicates
SetAdd(s, x) == IF x \in SeqRange(s) THEN s ELSE Append(s, x)

RECURSIVE CombinationsOf(_, _)
CombinationsOf(list, acc) ==
    IF list = <<>> THEN acc
    ELSE CombinationsOf(Tail(list),
                        SetAdd(acc, getCombinationKey(Head(list).skillLevel,
                                                      Head(list).language)))

\* Map.set
MapSet(m, k, v) == [x \in (DOMAIN m) \cup {k} |-> IF x = k THEN v ELSE m[x]]

EmptyMap == [x \in {} |-> NoPrompt]

\* mutant: every user is given the prompt of the first combination
PromptForFirst(user) ==
    IF combinations # <<>> /\ combinations[1] \in DOMAIN prompts
    THEN <<prompts[combinations[1]]>> ELSE <<>>

\* the lookup of sendPromptsToUsers: the user's prompt, or none
PromptFor(user) ==
    LET key == getCombinationKey(user.skillLevel, user.language)
    IN  IF key \in DOMAIN prompts THEN <<prompts[key]>> ELSE <<>>

\* mutant: the users who are no longer subscribed are left out
BuildMessagesReread(list) ==
    LET StillSubscribed(u) ==
            u.phoneNumber \in DOMAIN users /\ users[u.phoneNumber].isActive
        kept == SelectSeq(list, StillSubscribed)
    IN  [i \in 1 .. Len(kept) |->
            [phoneNumber |-> kept[i].phoneNumber,
             message |-> PromptFor(kept[i])[1].text,
             imageUrl |-> PromptFor(kept[i])[1].imageUrl]]

\* users.map(...) of sendPromptsToUsers, when every lookup hits
BuildMessages(list) ==
    [i \in 1 .. Len(list) |->
        [phoneNumber |-> list[i].phoneNumber,
         message |-> PromptFor(list[i])[1].text,
         imageUrl |-> PromptFor(list[i])[1].imageUrl]]

\* mutant: the empty report counts the rows of the users table
createEmptyReportCountsRows ==
    [totalUsers |-> Cardinality(DOMAIN users), successCount |-> 0,
     failureCount |-> 0, promptsGenerated |-> 0, imagesGenerated |-> 0]

createEmptyReport ==
    [totalUsers |-> 0, successCount |-> 0, failureCount |-> 0,
     promptsGenerated |-> 0, imagesGenerated |-> 0]

\* mutant: the loop is left after its first pass
GenerationDoneEarly == combIdx > 1

\* the for loop over the combinations has run to its end
GenerationDone == combIdx > Len(combinations)

\* executeDailyDelivery, step 1, and the grouping of step 2
LoadUsers ==
    /\ pc = "start"
    /\ activeUsers' = getAllActiveUsers
    /\ IF Len(getAllActiveUsers) = 0
       THEN /\ report' = <<createEmptyReport>>
            /\ pc' = "emptyRun"
            /\ UNCHANGED <<combinations, combIdx, prompts>>
       ELSE /\ combinations' = CombinationsOf(getAllActiveUsers, <<>>)
            /\ combIdx' = 1
            /\ prompts' = EmptyMap
            /\ pc' = "generate"
            /\ UNCHANGED report
    /\ UNCHANGED <<od, fb, users, maxRetries, wh, clientDb, logStore, usageLog, deliveryLog,
                   cl, fetches, slept, pg, bulk, sendAttempts, recIdx, genCalls,
                   tsRequests>>

\* generatePromptsForAllCombinations: the loop calls generatePromptWithRetry
GenerateCall ==
    /\ pc = "generate" /\ pg.state = "idle"
    /\ ~GenerationDone
    /\ LET pair == parseCombinationKey(combinations[combIdx])
       IN  /\ pg' = PgCall(pair[1], pair[2], CallerMaxRetries)
           /\ genCalls' = Append(genCalls, pair)
    /\ cl' = ClientStart("text")
    /\ fetches' = 0
    /\ slept' = <<>>
    /\ UNCHANGED <<od, fb, users, maxRetries, wh, clientDb, logStore, usageLog, deliveryLog,
                   bulk, sendAttempts, pc, activeUsers, combinations, combIdx,
                   prompts, recIdx, report, tsRequests>>

\* generatePromptsForAllCombinations: prompts.set(combinationKey, prompt)
GenerateStore ==
    /\ pc = "generate" /\ pg.state = "returned"
    /\ prompts' = MapSet(prompts, combinations[combIdx], pg.result)
    /\ combIdx' = combIdx + 1
    /\ pg' = PgIdle
    /\ UNCHANGED <<od, fb, users, maxRetries, wh, clientDb, logStore, usageLog, deliveryLog,
                   cl, fetches, slept, bulk, sendAttempts, pc, activeUsers,
                   combinations, recIdx, report, genCalls, tsRequests>>

\* mutant: the catch of the generation loop logs and goes on with the next key
OnGeneratorRaiseSkip(idx) == [pc |-> "generate", combIdx |-> idx + 1, pg |-> PgIdle]

\* mutant: the catch of executeDailyDelivery starts the run again
OnGeneratorRaiseRestart(idx) == [pc |-> "start", combIdx |-> 1, pg |-> PgIdle]

\* the catch of the generation loop and the one of executeDailyDelivery: both
\* log and rethrow, so the error leaves the run
OnGeneratorRaise(idx) == [pc |-> "aborted", combIdx |-> idx, pg |-> pg]

\* generatePromptsForAllCombinations: the awaited generatePromptWithRetry raised
GenerateRaised ==
    /\ pc = "generate" /\ pg.state = "raised"
    /\ pc' = OnGeneratorRaise(combIdx).pc
    /\ combIdx' = OnGeneratorRaise(combIdx).combIdx
    /\ pg' = OnGeneratorRaise(combIdx).pg
    /\ UNCHANGED <<od, fb, users, maxRetries, wh, clientDb, logStore, usageLog,
                   deliveryLog, cl, fetches, slept, bulk, sendAttempts,
                   activeUsers, combinations, prompts, recIdx, report, genCalls,
                   tsRequests>>

\* the generator handed to the Scheduler's constructor, taken as any
\* implementation of generatePromptWithRetry: it returns a prompt or raises
\* (the PromptGenerator of this repository only ever returns)
InjectedGeneratorEnds ==
    /\ pc = "generate" /\ pg.state = "text"
    /\ \E raises \in BOOLEAN :
         pg' = IF raises
               THEN [pg EXCEPT !.state = "raised"]
               ELSE [pg EXCEPT !.state = "returned",
                               !.result = GeneratedPrompt(GoodIdea, GeneratedImageUrl,
                                                          pg.skillLevel, pg.language)]
    /\ UNCHANGED <<od, fb, users, maxRetries, wh, clientDb, logStore, usageLog,
                   deliveryLog, cl, fetches, slept, bulk, sendAttempts, pc,
                   activeUsers, combinations, combIdx, prompts, recIdx, report,
                   genCalls, tsRequests>>

\* sendPromptsToUsers: build the messages and call sendBulkMessages
DeliverStart ==
    /\ pc = "generate" /\ pg.state = "idle"
    /\ GenerationDone
    /\ IF \A i \in 1 .. Len(activeUsers) : PromptFor(activeUsers[i]) # <<>>
       THEN /\ bulk' = BulkCall(BuildMessages(activeUsers))
            /\ pc' = "deliver"
       ELSE /\ pc' = "aborted"
            /\ UNCHANGED bulk
    /\ sendAttempts' = <<>>
    /\ recIdx' = 1
    /\ UNCHANGED <<od, fb, users, maxRetries, wh, clientDb, logStore, usageLog, deliveryLog,
                   cl, fetches, slept, pg, activeUsers, combinations, combIdx,
                   prompts, report, genCalls, tsRequests>>

\* mutant: the failures list is not consulted
InFailuresNever(failures, phoneNumber) == FALSE

\* `result.failures.some((f) => f.phoneNumber === user.phoneNumber)`
InFailures(failures, phoneNumber) ==
    \E i \in 1 .. Len(failures) : failures[i].phoneNumber = phoneNumber

\* mutant: no catch inside the loop, the error leaves executeDailyDelivery
OnTimestampErrorAbort(idx) == [pc |-> "aborted", recIdx |-> idx]

\* the catch inside the timestamp loop: log, and go on with the next user
OnTimestampError(idx) == [pc |-> "deliver", recIdx |-> idx + 1]

\* sendPromptsToUsers: one pass through the timestamp loop
UpdateTimestamp ==
    /\ pc = "deliver" /\ bulk.state = "returned"
    /\ recIdx <= Len(activeUsers)
    /\ LET user == activeUsers[recIdx]
       IN  IF InFailures(bulk.failures, user.phoneNumber)
           THEN /\ recIdx' = recIdx + 1
                /\ UNCHANGED <<users, tsRequests, pc>>
           ELSE /\ tsRequests' = Append(tsRequests, user.phoneNumber)
                /\ \E updated \in BOOLEAN :
                     IF updated
                     THEN /\ users' = updateLastPromptSent(users, user.phoneNumber)
                          /\ recIdx' = recIdx + 1
                          /\ UNCHANGED pc
                     ELSE /\ pc' = OnTimestampError(recIdx).pc
                          /\ recIdx' = OnTimestampError(recIdx).recIdx
                          /\ UNCHANGED users
    /\ UNCHANGED <<od, fb, maxRetries, wh, clientDb, logStore, usageLog, deliveryLog, cl,
                   fetches, slept, pg, bulk, sendAttempts, activeUsers,
                   combinations, combIdx, prompts, report, genCalls>>

DeliveryReport ==
    [totalUsers |-> Len(activeUsers), successCount |-> bulk.totalSent,
     failureCount |-> bulk.totalFailed,
     promptsGenerated |-> Cardinality(DOMAIN prompts),
     imagesGenerated |-> Cardinality(DOMAIN prompts)]

\* executeDailyDelivery: log the delivery report and return it
ReportRun ==
    /\ pc = "deliver" /\ bulk.state = "returned"
    /\ recIdx > Len(activeUsers)
    /\ \E written \in LogWriteOutcomes :
         /\ deliveryLog' = logDeliveryReport(deliveryLog, DeliveryReport, written)
         /\ IF DeliveryLogRaises(written)
            THEN pc' = "aborted" /\ UNCHANGED report
            ELSE pc' = "completed" /\ report' = <<DeliveryReport>>
    /\ UNCHANGED <<od, fb, users, maxRetries, wh, clientDb, logStore, usageLog, cl, fetches,
                   slept, pg, bulk, sendAttempts, activeUsers, combinations,
                   combIdx, prompts, recIdx, genCalls, tsRequests>>

----------------------------------------------------------------------------
(* Callers of the fallback catalog *)

\* one more getFallbackPrompt call with the same arguments
GetFallbackCall ==
    /\ fb.skillLevel # <<>>
    /\ fb.calls < MaxFallbackCalls
    /\ \E r \in 0 .. RandomGrain - 1 :
         fb' = [fb EXCEPT !.calls = @ + 1,
                          !.previous = fb.result,
                          !.result = <<getFallbackPrompt(fb.skillLevel,
                                                         fb.language, r)>>]
    /\ UNCHANGED <<od, users, maxRetries, wh, clientDb, logStore, usageLog,
                   deliveryLog, cl, fetches, slept, pg, bulk, sendAttempts, pc,
                   activeUsers, combinations, combIdx, prompts, recIdx, report,
                   genCalls, tsRequests>>

\* a hasFallbackPrompts call with the same arguments
HasFallbackCall ==
    /\ fb.skillLevel # <<>>
    /\ fb.has = <<>>
    /\ fb' = [fb EXCEPT !.has = <<hasFallbackPrompts(fb.skillLevel, fb.language)>>]
    /\ UNCHANGED <<od, users, maxRetries, wh, clientDb, logStore, usageLog,
                   deliveryLog, cl, fetches, slept, pg, bulk, sendAttempts, pc,
                   activeUsers, combinations, combIdx, prompts, recIdx, report,
                   genCalls, tsRequests>>

----------------------------------------------------------------------------
(* Localized messages *)

DEFAULT_LANGUAGE == <<"ro">>

\* getMessage: the text stored for the key in the language, the one of the
\* default language when the language has no table
getMessage(key, language) ==
    <<key, ":">> \o (IF language \in Languages THEN language ELSE DEFAULT_LANGUAGE)

----------------------------------------------------------------------------
(* On-demand prompt: WebhookHandler.routeMessage -> PromptHandler *)

\* text: the message text routeMessage was called with
\* command, args: the parsed command routeMessage hands to its handler
\* lookup: what the first getUser of the handler came back with
\* insert: how the handler's createUser ended, when it made one
\* sends: the single sends made for the message, in order
OdIdle ==
    [state |-> "idle", phoneNumber |-> 0, text |-> <<>>, command |-> "none",
     args |-> <<>>, lookup |-> "none", insert |-> "none", reply |-> <<>>,
     sends |-> <<>>]

\* routeMessage has parsed a get_prompt command and calls handleGetPrompt
OdRequest(phoneNumber) ==
    [OdIdle EXCEPT !.state = "received", !.phoneNumber = phoneNumber,
                   !.command = "get_prompt"]

\* mutant: only the presence of the row is checked
IsSubscribedIfFound(user) == user # <<>>

\* `!user || !user.isActive`, negated
IsSubscribed(user) == user # <<>> /\ user[1].isActive

\* handleGetPrompt: the subscription check and the generatePromptWithRetry call
OdLookup ==
    /\ od.state = "received"
    /\ \E read \in DbOutcomes :
         LET user == getUser(od.phoneNumber)
         IN  IF read = "throws"
             THEN /\ od' = [od EXCEPT !.state = "failed", !.lookup = "threw"]
                  /\ UNCHANGED <<pg, cl, genCalls>>
             ELSE IF ~IsSubscribed(user)
             THEN /\ od' = [od EXCEPT
                              !.state = "returned",
                              !.lookup = IF user = <<>> THEN "absent" ELSE "inactive",
                              !.reply = getMessage("error_not_subscribed",
                                                   DEFAULT_LANGUAGE)]
                  /\ UNCHANGED <<pg, cl, genCalls>>
             ELSE /\ od' = [od EXCEPT !.state = "generating", !.lookup = "active"]
                  /\ pg' = PgCall(user[1].skillLevel, user[1].language,
                                  CallerMaxRetries)
                  /\ cl' = ClientStart("text")
                  /\ genCalls' = Append(genCalls,
                                        <<user[1].skillLevel, user[1].language>>)
    /\ fetches' = 0
    /\ slept' = <<>>
    /\ UNCHANGED <<fb, users, maxRetries, wh, clientDb, logStore, usageLog,
                   deliveryLog, bulk, sendAttempts, pc, activeUsers, combinations,
                   combIdx, prompts, recIdx, report, tsRequests>>

\* mutant: the result of the send is not looked at
PromptSendFailedNever(result) == FALSE

\* `if (!sendResult.success)`
PromptSendFailed(result) == ~result.success

\* mutant: a failed send is answered like a successful one
SendFailureReplyEmpty(language) == <<>>

\* what handleGetPrompt returns when the prompt could not be sent
SendFailureReply(language) == getMessage("error_general", language)

\* handleGetPrompt: the prompt came back, sendMessageWithImage is called once
OdSend ==
    /\ od.state = "generating" /\ pg.state \in {"returned", "raised"}
    /\ IF pg.state = "raised"
       THEN /\ od' = [od EXCEPT !.state = "failed"]
            /\ UNCHANGED usageLog
       ELSE \E outcome \in FetchOutcomes, written \in LogWriteOutcomes :
              LET result == sendMessageWithImage(outcome)
                  sent == [operation |-> "send_message_with_image",
                           outcome |-> outcome, raised |-> SendRaises(written),
                           result |-> result]
              IN  /\ usageLog' = ClientLog(UsageRecord("whatsapp",
                                                       "send_message_with_image",
                                                       result.success), written)
                  /\ od' = IF SendRaises(written)
                           THEN [od EXCEPT !.state = "failed",
                                           !.sends = Append(@, sent)]
                           ELSE IF PromptSendFailed(result)
                           THEN [od EXCEPT !.state = "returned",
                                           !.sends = Append(@, sent),
                                           !.reply = SendFailureReply(pg.language)]
                           ELSE [od EXCEPT !.state = "stamping",
                                           !.sends = Append(@, sent)]
    /\ UNCHANGED <<fb, users, maxRetries, wh, clientDb, logStore, deliveryLog, cl,
                   fetches, slept, pg, bulk, sendAttempts, pc, activeUsers,
                   combinations, combIdx, prompts, recIdx, report, genCalls,
                   tsRequests>>

\* handleGetPrompt: updateLastPromptSent after the successful send, return ''
OdStamp ==
    /\ od.state = "stamping"
    /\ tsRequests' = Append(tsRequests, od.phoneNumber)
    /\ \E write \in DbOutcomes :
         IF write = "ok"
         THEN /\ users' = updateLastPromptSent(users, od.phoneNumber)
              /\ od' = [od EXCEPT !.state = "returned", !.reply = <<>>]
         ELSE /\ od' = [od EXCEPT !.state = "failed"]
              /\ UNCHANGED users
    /\ UNCHANGED <<fb, maxRetries, wh, clientDb, logStore, usageLog, deliveryLog, cl,
                   fetches, slept, pg, bulk, sendAttempts, pc, activeUsers,
                   combinations, combIdx, prompts, recIdx, report, genCalls>>

\* `user?.language || DEFAULT_LANGUAGE`
LanguageOrDefault(user) == IF user = <<>> THEN DEFAULT_LANGUAGE ELSE user[1].language

\* handleGetPrompt: the catch block, which reads the user's language again
OdCatch ==
    /\ od.state = "failed"
    /\ \E read \in DbOutcomes :
         od' = [od EXCEPT
                  !.state = "returned",
                  !.reply = IF read = "ok"
                            THEN getMessage("error_general",
                                            LanguageOrDefault(getUser(od.phoneNumber)))
                            ELSE getMessage("error_general", DEFAULT_LANGUAGE)]
    /\ UNCHANGED <<fb, users, maxRetries, wh, clientDb, logStore, usageLog,
                   deliveryLog, cl, fetches, slept, pg, bulk, sendAttempts, pc,
                   activeUsers, combinations, combIdx, prompts, recIdx, report,
                   genCalls, tsRequests>>

\* routeMessage: `if (responseMessage)` send it with sendMessage
RouteReply ==
    /\ od.state = "returned"
    /\ IF od.reply = <<>>
       THEN /\ od' = [od EXCEPT !.state = "done"]
            /\ UNCHANGED usageLog
       ELSE \E outcome \in FetchOutcomes, written \in LogWriteOutcomes :
              LET result == sendMessage(outcome)
                  sent == [operation |-> "send_message", outcome |-> outcome,
                           raised |-> SendRaises(written), result |-> result]
              IN  /\ usageLog' = ClientLog(UsageRecord("whatsapp", "send_message",
                                                       result.success), written)
                  /\ od' = [od EXCEPT !.state = "done", !.sends = Append(@, sent)]
    /\ UNCHANGED <<fb, users, maxRetries, wh, clientDb, logStore, deliveryLog, cl,
                   fetches, slept, pg, bulk, sendAttempts, pc, activeUsers,
                   combinations, combIdx, prompts, recIdx, report, genCalls,
                   tsRequests>>

----------------------------------------------------------------------------
(* Unsubscribe: WebhookHandler.routeMessage -> UnsubscribeHandler *)

\* handleUnsubscribe for a subscribed sender whose UPDATE goes through: the row
\* is deactivated and the confirmation returned; for any other sender, or when
\* a statement throws, a message is returned and the table is left as it is
HandleUnsubscribe ==
    /\ \E p \in Phones :
         /\ IsSubscribed(getUser(p))
         /\ users' = deactivateUser(users, p)
    /\ UNCHANGED <<od, fb, maxRetries, wh, clientDb, logStore, usageLog, deliveryLog,
                   cl, fetches, slept, pg, bulk, sendAttempts, pc, activeUsers,
                   combinations, combIdx, prompts, recIdx, report, genCalls,
                   tsRequests>>

----------------------------------------------------------------------------
(* Command parser: parseCommand *)

\* A message is a sequence of atoms, each a run of characters; a word is a run
\* of atoms without a space, and equals a literal only when it is that one atom.
\* The letters with a diacritic are written with a following apostrophe.

Null == <<"null">>

\* split(/\s+/) of a trimmed, non-empty string
NonEmptyWord(w) == w # <<>>
SplitWords(s) == SelectSeq(Split(s, " "), NonEmptyWord)

\* words[i] of JavaScript, counted from 0: undefined past the end
WordAt(words, i) == IF i + 1 <= Len(words) THEN words[i + 1] ELSE Undefined

numberToSkillLevel(num) ==
    CASE num = <<"1">> -> <<"beginner">>
      [] num = <<"2">> -> <<"intermediate">>
      [] num = <<"3">> -> <<"advanced">>
      [] OTHER -> Null

parseSkillLevel(value) ==
    LET trimmed == ToLowerCase(Trim(value))
    IN  IF trimmed \in {<<"1">>, <<"2">>, <<"3">>} THEN numberToSkillLevel(trimmed)
        ELSE IF trimmed \in SkillLevels THEN trimmed
        ELSE Null

isLanguage(value) == value \in Languages

\* `x || undefined`
OrUndefined(x) == IF x = Null THEN Undefined ELSE x

SubscribeWords ==
    {<<"subscribe">>, <<"sub">>, <<"abonare">>, <<"aboneaza">>, <<"aboneaza'">>}

UpdateSkillWords ==
    {<<"update_skill">>, <<"update-skill">>, <<"skill">>, <<"nivel">>,
     <<"experienta">>, <<"experient'a'">>}

UpdateLanguageWords ==
    {<<"update_language">>, <<"update-language">>, <<"language">>, <<"lang">>,
     <<"limba">>}

UnsubscribeWords ==
    {<<"unsubscribe">>, <<"unsub">>, <<"stop">>, <<"dezabonare">>,
     <<"dezaboneaza">>, <<"dezaboneaza'">>, <<"opreste">>, <<"opres'te">>}

GetPromptWords ==
    {<<"get_prompt">>, <<"get-prompt">>, <<"prompt">>, <<"paint">>, <<"idea">>,
     <<"idee">>, <<"picteaza">>, <<"picteaza'">>, <<"sugestie">>}

HelpWords ==
    {<<"help">>, <<"?">>, <<"commands">>, <<"ajutor">>, <<"comenzi">>}

UpdateVerbs == {<<"update">>, <<"actualizeaza">>, <<"actualizeaza'">>}
ChangeVerbs == {<<"schimba">>, <<"schimba'">>}

Command(type, skillLevel, language, text) ==
    [type |-> type, skillLevel |-> skillLevel, language |-> language,
     text |-> text]

parseCommand(message) ==
    LET normalized == ToLowerCase(Trim(message))
        words == SplitWords(normalized)
        firstWord == WordAt(words, 0)
        second == WordAt(words, 1)
    IN  IF normalized = <<>>
        THEN Command("unknown", Undefined, Undefined, message)
        ELSE IF firstWord \in SubscribeWords
        THEN Command("subscribe",
                     IF Len(words) > 1 THEN OrUndefined(parseSkillLevel(words[2]))
                     ELSE Undefined,
                     IF Len(words) > 2 /\ isLanguage(words[3]) THEN words[3]
                     ELSE Undefined,
                     Undefined)
        ELSE IF \/ firstWord \in UpdateSkillWords
                \/ firstWord = <<"update">> /\ second = <<"skill">>
                \/ firstWord \in {<<"actualizeaza">>, <<"actualizeaza'">>}
                   /\ second = <<"nivel">>
        THEN LET skillIndex == IF firstWord \in UpdateVerbs THEN 2 ELSE 1
             IN  Command("update_skill",
                         IF Len(words) > skillIndex
                         THEN OrUndefined(parseSkillLevel(words[skillIndex + 1]))
                         ELSE Undefined,
                         Undefined, Undefined)
        ELSE IF \/ firstWord \in UpdateLanguageWords
                \/ firstWord = <<"update">> /\ second \in {<<"language">>, <<"lang">>}
                \/ firstWord \in {<<"actualizeaza">>, <<"actualizeaza'">>}
                   /\ second = <<"limba">>
                \/ firstWord \in ChangeVerbs /\ second = <<"limba">>
        THEN LET langIndex == IF firstWord \in UpdateVerbs \cup ChangeVerbs
                              THEN 2 ELSE 1
             IN  Command("update_language", Undefined,
                         IF Len(words) > langIndex /\ isLanguage(words[langIndex + 1])
                         THEN words[langIndex + 1] ELSE Undefined,
                         Undefined)
        ELSE IF firstWord \in UnsubscribeWords
        THEN Command("unsubscribe", Undefined, Undefined, Undefined)
        ELSE IF \/ firstWord \in GetPromptWords
                \/ firstWord = <<"get">> /\ second = <<"prompt">>
        THEN Command("get_prompt", Undefined, Undefined, Undefined)
        ELSE IF firstWord \in HelpWords
        THEN Command("help", Undefined, Undefined, Undefined)
        ELSE Command("unknown", Undefined, Undefined, message)

\* the atoms the message texts are made of
MessageAtoms ==
    {"/", " ", "help", "HELP", "subscribe", "prompt", "unsubscribe", "skill",
     "language", "beginner", "intermediate", "en", "unknown"}

MessageTexts ==
    UNION {[1 .. n -> MessageAtoms] : n \in 0 .. MaxMessageLen}

\* routeMessage has been called with the sender and the text of a message
OdArrived(phoneNumber, text) ==
    [OdIdle EXCEPT !.state = "arrived", !.phoneNumber = phoneNumber,
                   !.text = text]

\* routeMessage: `const command = parseCommand(messageText)`
ParseMessage ==
    /\ od.state = "arrived"
    /\ LET command == parseCommand(od.text)
       IN  od' = [od EXCEPT !.state = "parsed", !.command = command.type,
                            !.args = <<command.skillLevel, command.language>>]
    /\ UNCHANGED <<fb, users, maxRetries, wh, clientDb, logStore, usageLog,
                   deliveryLog, cl, fetches, slept, pg, bulk, sendAttempts, pc,
                   activeUsers, combinations, combIdx, prompts, recIdx, report,
                   genCalls, tsRequests>>

----------------------------------------------------------------------------
(* Updates: WebhookHandler.routeMessage -> UpdateHandler *)

\* handleUpdateSkill for a subscribed sender who names a skill level and whose
\* UPDATE goes through: the row is updated and the confirmation returned; for
\* any other sender, or when a statement throws, a message is returned and the
\* table is left as it is
HandleUpdateSkill ==
    /\ \E p \in Phones, newSkillLevel \in SkillLevels :
         /\ IsSubscribed(getUser(p))
         /\ users' = updateSkillLevel(users, p, newSkillLevel)
    /\ UNCHANGED <<od, fb, maxRetries, wh, clientDb, logStore, usageLog, deliveryLog,
                   cl, fetches, slept, pg, bulk, sendAttempts, pc, activeUsers,
                   combinations, combIdx, prompts, recIdx, report, genCalls,
                   tsRequests>>

\* handleUpdateLanguage, likewise
HandleUpdateLanguage ==
    /\ \E p \in Phones, newLanguage \in Languages :
         /\ IsSubscribed(getUser(p))
         /\ isLanguage(newLanguage)
         /\ users' = updateLanguage(users, p, newLanguage)
    /\ UNCHANGED <<od, fb, maxRetries, wh, clientDb, logStore, usageLog, deliveryLog,
                   cl, fetches, slept, pg, bulk, sendAttempts, pc, activeUsers,
                   combinations, combIdx, prompts, recIdx, report, genCalls,
                   tsRequests>>

----------------------------------------------------------------------------
(* Subscribe: WebhookHandler.routeMessage -> SubscriptionHandler *)

\* the INSERT of createUser: phone_number is the primary key of the table, so
\* the statement goes through only when the number has no row yet
InsertOutcome(table, phoneNumber, db) ==
    IF db = "throws" THEN "throws"
    ELSE IF phoneNumber \in DOMAIN table THEN "constraint"
    ELSE "ok"

\* createUser, when its INSERT goes through
createUser(table, phoneNumber, skillLevel, language) ==
    IF phoneNumber \in DOMAIN table
    THEN table
    ELSE [p \in DOMAIN table \cup {phoneNumber} |->
            IF p = phoneNumber THEN UserRow(skillLevel, language, TRUE)
            ELSE table[p]]

\* `${welcome}\n\n${confirmation}`
SubscribedReply(language) ==
    getMessage("welcome", language) \o <<"\n\n">>
        \o getMessage("subscription_confirmed", language)

\* handleSubscribe for a sender without a row who names a skill level and a
\* language and whose INSERT goes through, its reply not followed: the row is
\* created; for any other sender the table is left as it is
ConcurrentSubscribe ==
    /\ \E p \in Phones, skillLevel \in SkillLevels, language \in Languages :
         /\ ~IsSubscribed(getUser(p))
         /\ InsertOutcome(users, p, "ok") = "ok"
         /\ users' = createUser(users, p, skillLevel, language)
    /\ UNCHANGED <<od, fb, maxRetries, wh, clientDb, logStore, usageLog, deliveryLog,
                   cl, fetches, slept, pg, bulk, sendAttempts, pc, activeUsers,
                   combinations, combIdx, prompts, recIdx, report, genCalls,
                   tsRequests>>

\* the skill level and language parseCommand can hand to handleSubscribe
SubscribeSkillInputs == SkillLevels \cup {Undefined}
SubscribeLanguageInputs == Languages \cup {Undefined}

\* `language || DEFAULT_LANGUAGE`
SubscribeLanguageOrDefault(language) ==
    IF language = Undefined THEN DEFAULT_LANGUAGE ELSE language

\* handleSubscribe, from the getUser to the returned message
HandleSubscribe ==
    /\ od.state \in {"idle", "done"}
    /\ \E p \in Phones, skillLevel \in SubscribeSkillInputs,
          language \in SubscribeLanguageInputs, read \in DbOutcomes,
          write \in DbOutcomes :
         LET existingUser == getUser(p)
             msg == [OdIdle EXCEPT !.state = "returned", !.phoneNumber = p,
                                   !.command = "subscribe",
                                   !.args = <<skillLevel, language>>]
             failed == getMessage("error_general",
                                  SubscribeLanguageOrDefault(language))
             inserted == InsertOutcome(users, p, write)
         IN  IF read = "throws"
             THEN /\ od' = [msg EXCEPT !.lookup = "threw", !.reply = failed]
                  /\ UNCHANGED users
             ELSE LET found == IF existingUser = <<>> THEN "absent"
                               ELSE IF existingUser[1].isActive THEN "active"
                               ELSE "inactive"
                  IN  IF IsSubscribed(existingUser)
                      THEN /\ od' = [msg EXCEPT
                                       !.lookup = found,
                                       !.reply = getMessage(
                                           "error_already_subscribed",
                                           existingUser[1].language)]
                           /\ UNCHANGED users
                      ELSE IF skillLevel = Undefined
                      THEN /\ od' = [msg EXCEPT
                                       !.lookup = found,
                                       !.reply = getMessage(
                                           "prompt_skill_level",
                                           SubscribeLanguageOrDefault(language))]
                           /\ UNCHANGED users
                      ELSE IF language = Undefined
                      THEN /\ od' = [msg EXCEPT
                                       !.lookup = found,
                                       !.reply = getMessage("prompt_language",
                                                            DEFAULT_LANGUAGE)]
                           /\ UNCHANGED users
                      ELSE IF language \notin Languages
                      THEN /\ od' = [msg EXCEPT
                                       !.lookup = found,
                                       !.reply = getMessage(
                                           "error_invalid_language",
                                           DEFAULT_LANGUAGE)]
                           /\ UNCHANGED users
                      ELSE IF inserted = "ok"
                      THEN /\ users' = createUser(users, p, skillLevel, language)
                           /\ od' = [msg EXCEPT !.lookup = found,
                                                !.insert = inserted,
                                                !.reply = SubscribedReply(language)]
                      ELSE /\ od' = [msg EXCEPT !.lookup = found,
                                                !.insert = inserted,
                                                !.reply = failed]
                           /\ UNCHANGED users
    /\ UNCHANGED <<fb, maxRetries, wh, clientDb, logStore, usageLog, deliveryLog,
                   cl, fetches, slept, pg, bulk, sendAttempts, pc, activeUsers,
                   combinations, combIdx, prompts, recIdx, report, genCalls,
                   tsRequests>>

----------------------------------------------------------------------------
(* The commands of a sender: the handlers from the getUser to the returned
   message *)

\* what the first getUser of a handler came back with
Lookup(read, user) ==
    IF read = "throws" THEN "threw"
    ELSE IF user = <<>> THEN "absent"
    ELSE IF user[1].isActive THEN "active"
    ELSE "inactive"

\* the catch block of handleUnsubscribe, handleUpdateSkill and
\* handleUpdateLanguage, which reads the user's language again
HandlerCatchReply(phoneNumber, reread) ==
    IF reread = "ok"
    THEN getMessage("error_general", LanguageOrDefault(getUser(phoneNumber)))
    ELSE getMessage("error_general", DEFAULT_LANGUAGE)

\* handleUnsubscribe, from the getUser to the returned message
handleUnsubscribe ==
    /\ od.state \in {"idle", "done"}
    /\ \E p \in Phones, read \in DbOutcomes, write \in DbOutcomes,
          reread \in DbOutcomes :
         LET user == getUser(p)
             msg == [OdIdle EXCEPT !.state = "returned", !.phoneNumber = p,
                                   !.command = "unsubscribe",
                                   !.lookup = Lookup(read, user)]
         IN  IF read = "throws"
             THEN /\ od' = [msg EXCEPT !.reply = HandlerCatchReply(p, reread)]
                  /\ UNCHANGED users
             ELSE IF ~IsSubscribed(user)
             THEN /\ od' = [msg EXCEPT
                              !.reply = getMessage("error_not_subscribed",
                                                   DEFAULT_LANGUAGE)]
                  /\ UNCHANGED users
             ELSE IF write = "throws"
             THEN /\ od' = [msg EXCEPT !.reply = HandlerCatchReply(p, reread)]
                  /\ UNCHANGED users
             ELSE /\ users' = deactivateUser(users, p)
                  /\ od' = [msg EXCEPT
                              !.reply = getMessage("unsubscribe_confirmed",
                                                   user[1].language)]
    /\ UNCHANGED <<fb, maxRetries, wh, clientDb, logStore, usageLog, deliveryLog,
                   cl, fetches, slept, pg, bulk, sendAttempts, pc, activeUsers,
                   combinations, combIdx, prompts, recIdx, report, genCalls,
                   tsRequests>>

\* `${currentMessage}\n\n${promptMessage}`
CurrentAndPrompt(currentKey, value, promptKey, language) ==
    getMessage(currentKey, language) \o value \o <<"\n\n">>
        \o getMessage(promptKey, language)

\* handleUpdateSkill, from the getUser to the returned message
handleUpdateSkill ==
    /\ od.state \in {"idle", "done"}
    /\ \E p \in Phones, newSkillLevel \in SubscribeSkillInputs,
          read \in DbOutcomes, write \in DbOutcomes, reread \in DbOutcomes :
         LET user == getUser(p)
             msg == [OdIdle EXCEPT !.state = "returned", !.phoneNumber = p,
                                   !.command = "update_skill",
                                   !.args = <<newSkillLevel>>,
                                   !.lookup = Lookup(read, user)]
         IN  IF read = "throws"
             THEN /\ od' = [msg EXCEPT !.reply = HandlerCatchReply(p, reread)]
                  /\ UNCHANGED users
             ELSE IF ~IsSubscribed(user)
             THEN /\ od' = [msg EXCEPT
                              !.reply = getMessage("error_not_subscribed",
                                                   DEFAULT_LANGUAGE)]
                  /\ UNCHANGED users
             ELSE IF newSkillLevel = Undefined
             THEN /\ od' = [msg EXCEPT
                              !.reply = CurrentAndPrompt(
                                  "current_skill_level", user[1].skillLevel,
                                  "prompt_skill_level", user[1].language)]
                  /\ UNCHANGED users
             ELSE IF write = "throws"
             THEN /\ od' = [msg EXCEPT !.reply = HandlerCatchReply(p, reread)]
                  /\ UNCHANGED users
             ELSE /\ users' = updateSkillLevel(users, p, newSkillLevel)
                  /\ od' = [msg EXCEPT
                              !.reply = getMessage("skill_updated",
                                                   user[1].language)]
    /\ UNCHANGED <<fb, maxRetries, wh, clientDb, logStore, usageLog, deliveryLog,
                   cl, fetches, slept, pg, bulk, sendAttempts, pc, activeUsers,
                   combinations, combIdx, prompts, recIdx, report, genCalls,
                   tsRequests>>

\* handleUpdateLanguage, from the getUser to the returned message
handleUpdateLanguage ==
    /\ od.state \in {"idle", "done"}
    /\ \E p \in Phones, newLanguage \in SubscribeLanguageInputs,
          read \in DbOutcomes, write \in DbOutcomes, reread \in DbOutcomes :
         LET user == getUser(p)
             msg == [OdIdle EXCEPT !.state = "returned", !.phoneNumber = p,
                                   !.command = "update_language",
                                   !.args = <<newLanguage>>,
                                   !.lookup = Lookup(read, user)]
         IN  IF read = "throws"
             THEN /\ od' = [msg EXCEPT !.reply = HandlerCatchReply(p, reread)]
                  /\ UNCHANGED users
             ELSE IF ~IsSubscribed(user)
             THEN /\ od' = [msg EXCEPT
                              !.reply = getMessage("error_not_subscribed",
                                                   DEFAULT_LANGUAGE)]
                  /\ UNCHANGED users
             ELSE IF newLanguage = Undefined
             THEN /\ od' = [msg EXCEPT
                              !.reply = CurrentAndPrompt(
                                  "current_language", user[1].language,
                                  "prompt_language", user[1].language)]
                  /\ UNCHANGED users
             ELSE IF ~isLanguage(newLanguage)
             THEN /\ od' = [msg EXCEPT
                              !.reply = getMessage("error_invalid_language",
                                                   user[1].language)]
                  /\ UNCHANGED users
             ELSE IF write = "throws"
             THEN /\ od' = [msg EXCEPT !.reply = HandlerCatchReply(p, reread)]
                  /\ UNCHANGED users
             ELSE /\ users' = updateLanguage(users, p, newLanguage)
                  /\ od' = [msg EXCEPT
                              !.reply = getMessage("language_updated",
                                                   newLanguage)]
    /\ UNCHANGED <<fb, maxRetries, wh, clientDb, logStore, usageLog, deliveryLog,
                   cl, fetches, slept, pg, bulk, sendAttempts, pc, activeUsers,
                   combinations, combIdx, prompts, recIdx, report, genCalls,
                   tsRequests>>

----------------------------------------------------------------------------
(* Webhook: WebhookHandler.handleIncomingMessage *)

\* kind: what the request body is: "unparsable" (request.json() rejects),
\*   "other_object" (body.object is not the WhatsApp one), "no_entry" (the
\*   WhatsApp object without an entry list) or "messages"
\* messages: the messages of the payload, in the order of its entries and changes
\* idx: position of the loop in messages
\* routed: the routeMessage calls made, in order
\* status: the HTTP status of the response, 0 while there is none
WhIdle ==
    [state |-> "idle", kind |-> "none", messages |-> <<>>, idx |-> 1,
     routed |-> <<>>, status |-> 0]

WhReceived(kind, messages) ==
    [WhIdle EXCEPT !.state = "received", !.kind = kind, !.messages = messages]

\* a body that is a JSON number
NotAString == <<"#number">>

PayloadKinds == {"unparsable", "other_object", "no_entry", "messages"}

\* the messages a payload can carry: text messages with an empty body, a
\* command or a body that is not a string, and messages of another type
InMessage(type, from, body) == [type |-> type, from |-> from, body |-> body]

InMessages ==
    {InMessage("text", p, b) :
        p \in Phones, b \in {<<>>, <<"help">>, <<"unsubscribe">>, NotAString}}
    \cup {InMessage("image", p, <<>>) : p \in Phones}

PayloadMessages == UNION {[1 .. n -> InMessages] : n \in 0 .. MaxPayloadLen}

\* `message.type === 'text' && message.text?.body`
IsTextMessage(message) == message.type = "text" /\ message.body # <<>>

\* the response of the end of the try block
Acknowledge(w) == [w EXCEPT !.state = "responded", !.status = 200]

\* the response to a body whose object is not the WhatsApp one
RejectObject(w) == [w EXCEPT !.state = "responded", !.status = 400]

\* mutant: the catch block answers with a server error
OnIncomingErrorFails(w) == [w EXCEPT !.state = "responded", !.status = 500]

\* the catch block of handleIncomingMessage
OnIncomingError(w) == [w EXCEPT !.state = "responded", !.status = 200]

\* handleIncomingMessage up to the loop: request.json() and the object check
ParsePayload ==
    /\ wh.state = "received"
    /\ wh' = CASE wh.kind = "unparsable" -> OnIncomingError(wh)
               [] wh.kind = "other_object" -> RejectObject(wh)
               [] wh.kind = "no_entry" -> OnIncomingError(wh)
               [] OTHER -> [wh EXCEPT !.state = "routing"]
    /\ UNCHANGED <<users, maxRetries, clientDb, logStore, usageLog, deliveryLog,
                   cl, fetches, slept, pg, bulk, sendAttempts, pc, activeUsers,
                   combinations, combIdx, prompts, recIdx, report, genCalls,
                   tsRequests, od, fb>>

\* what the handler of a command does to the users table when nothing throws;
\* the commands of the payloads are help and unsubscribe
HandlerEffect(table, phoneNumber, command, read, write) ==
    CASE command = "unsubscribe" ->
           IF read = "ok" /\ write = "ok" /\ IsSubscribed(getUser(phoneNumber))
           THEN deactivateUser(table, phoneNumber)
           ELSE table
      [] command \in {"help", "unknown"} -> table

\* the routeMessage call as the loop records it
Routed(message, outcome) ==
    [from |-> message.from, text |-> message.body,
     command |-> parseCommand(message.body).type, outcome |-> outcome]

\* mutant: the error leaves routeMessage and ends the loop
OnRouteErrorRethrow(w, message) ==
    OnIncomingError([w EXCEPT !.routed = Append(@, Routed(message, "caught"))])

\* routeMessage: the catch block, which keeps the error, and the next
\* iteration of the loop
OnRouteError(w, message) ==
    [w EXCEPT !.routed = Append(@, Routed(message, "caught")), !.idx = @ + 1]

\* where an error is thrown in the try block of routeMessage, if anywhere
ThrowPoints == {"none", "handler", "send"}

\* one iteration of the loop over the messages: a message that is not a text
\* message is skipped; the body of a text message is cut for the log line, and
\* routeMessage is awaited
RouteNext ==
    /\ wh.state = "routing"
    /\ wh.idx <= Len(wh.messages)
    /\ LET message == wh.messages[wh.idx]
       IN  IF ~IsTextMessage(message)
           THEN /\ wh' = [wh EXCEPT !.idx = @ + 1]
                /\ UNCHANGED <<users, usageLog>>
           ELSE IF message.body = NotAString
           THEN /\ wh' = OnIncomingError(wh)
                /\ UNCHANGED <<users, usageLog>>
           ELSE \E thrown \in ThrowPoints, read \in DbOutcomes,
                   write \in DbOutcomes, outcome \in FetchOutcomes,
                   written \in LogWriteOutcomes :
                  LET command == parseCommand(message.body).type
                      result == sendMessage(outcome)
                      logged == ClientLog(UsageRecord("whatsapp", "send_message",
                                                      result.success), written)
                  IN  /\ users' = IF thrown = "handler" THEN users
                                  ELSE HandlerEffect(users, message.from, command,
                                                     read, write)
                      /\ IF thrown = "none"
                         THEN /\ usageLog' = logged
                              /\ wh' = [wh EXCEPT
                                          !.routed = Append(@, Routed(message,
                                              IF result.success THEN "sent"
                                              ELSE "unsent")),
                                          !.idx = @ + 1]
                         ELSE /\ usageLog' = IF read = "ok" THEN logged
                                             ELSE usageLog
                              /\ wh' = OnRouteError(wh, message)
    /\ UNCHANGED <<maxRetries, clientDb, logStore, deliveryLog, cl, fetches,
                   slept, pg, bulk, sendAttempts, pc, activeUsers, combinations,
                   combIdx, prompts, recIdx, report, genCalls, tsRequests, od,
                   fb>>

\* handleIncomingMessage after the loop
Respond ==
    /\ wh.state = "routing"
    /\ wh.idx > Len(wh.messages)
    /\ wh' = Acknowledge(wh)
    /\ UNCHANGED <<users, maxRetries, clientDb, logStore, usageLog, deliveryLog,
                   cl, fetches, slept, pg, bulk, sendAttempts, pc, activeUsers,
                   combinations, combIdx, prompts, recIdx, report, genCalls,
                   tsRequests, od, fb>>

----------------------------------------------------------------------------
(* Specifications *)

\* the daily batch run as ScheduledHandler wires it
Init ==
    /\ \E S \in SUBSET Phones : users \in [S -> UserRows]
    /\ maxRetries \in {0, DefaultMaxRetries}
    /\ wh = WhIdle
    /\ clientDb = TRUE
    /\ logStore \in {"up", "down"}
    /\ usageLog = <<>>
    /\ deliveryLog = <<>>
    /\ cl = ClientIdle
    /\ fetches = 0
    /\ slept = <<>>
    /\ pg = PgIdle
    /\ bulk = BulkIdle
    /\ sendAttempts = <<>>
    /\ pc = "start"
    /\ activeUsers = <<>>
    /\ combinations = <<>>
    /\ combIdx = 1
    /\ prompts = EmptyMap
    /\ recIdx = 1
    /\ report = <<>>
    /\ genCalls = <<>>
    /\ tsRequests = <<>>
    /\ od = OdIdle
    /\ fb = FbIdle

Next ==
    \/ LoadUsers
    \/ GenerateCall
    \/ GenerateTextAttempt
    \/ GenerateImageAttempt
    \/ RetryLoopExit
    \/ PgTextReturned
    \/ PgImageReturned
    \/ PgFallback
    \/ GenerateStore
    \/ DeliverStart
    \/ BulkSendNext
    \/ BulkReturn
    \/ UpdateTimestamp
    \/ ReportRun

Spec == Init /\ [][Next]_vars

\* one generatePromptWithRetry call, for every pair and client configuration
InitGen ==
    /\ users = [p \in {} |-> 0]
    /\ maxRetries \in 0 .. MaxRetriesCfg
    /\ wh = WhIdle
    /\ clientDb \in BOOLEAN
    /\ logStore \in {"up", "down", "flaky"}
    /\ usageLog = <<>>
    /\ deliveryLog = <<>>
    /\ cl = ClientStart("text")
    /\ fetches = 0
    /\ slept = <<>>
    /\ \E s \in SkillLevels, l \in Languages, m \in 0 .. MaxRetriesCfg :
         pg = PgCall(s, l, m)
    /\ bulk = BulkIdle
    /\ sendAttempts = <<>>
    /\ pc = "off"
    /\ activeUsers = <<>>
    /\ combinations = <<>>
    /\ combIdx = 1
    /\ prompts = EmptyMap
    /\ recIdx = 1
    /\ report = <<>>
    /\ genCalls = <<>>
    /\ tsRequests = <<>>
    /\ od = OdIdle
    /\ fb = FbIdle

NextGen ==
    \/ GenerateTextAttempt
    \/ GenerateImageAttempt
    \/ RetryLoopExit
    \/ PgTextReturned
    \/ PgImageReturned
    \/ PgFallback

SpecGen == InitGen /\ [][NextGen]_vars

\* one sendBulkMessages call, for every list of messages up to MaxMsgs
BulkMessages ==
    [phoneNumber : Phones, message : {GoodIdea},
     imageUrl : {<<>>, GeneratedImageUrl}]

InitBulk ==
    /\ users = [p \in {} |-> 0]
    /\ maxRetries = DefaultMaxRetries
    /\ wh = WhIdle
    /\ clientDb \in BOOLEAN
    /\ logStore \in {"up", "down"}
    /\ usageLog = <<>>
    /\ deliveryLog = <<>>
    /\ cl = ClientIdle
    /\ fetches = 0
    /\ slept = <<>>
    /\ pg = PgIdle
    /\ \E n \in 0 .. MaxMsgs : \E m \in [1 .. n -> BulkMessages] : bulk = BulkCall(m)
    /\ sendAttempts = <<>>
    /\ pc = "off"
    /\ activeUsers = <<>>
    /\ combinations = <<>>
    /\ combIdx = 1
    /\ prompts = EmptyMap
    /\ recIdx = 1
    /\ report = <<>>
    /\ genCalls = <<>>
    /\ tsRequests = <<>>
    /\ od = OdIdle
    /\ fb = FbIdle

NextBulk ==
    \/ BulkSendNext
    \/ BulkReturn

SpecBulk == InitBulk /\ [][NextBulk]_vars

\* subscribe and unsubscribe messages arriving one after the other, for every
\* users table
InitSubscription ==
    /\ \E S \in SUBSET Phones : users \in [S -> UserRows]
    /\ maxRetries = DefaultMaxRetries
    /\ wh = WhIdle
    /\ clientDb = TRUE
    /\ logStore = "down"
    /\ usageLog = <<>>
    /\ deliveryLog = <<>>
    /\ cl = ClientIdle
    /\ fetches = 0
    /\ slept = <<>>
    /\ pg = PgIdle
    /\ bulk = BulkIdle
    /\ sendAttempts = <<>>
    /\ pc = "off"
    /\ activeUsers = <<>>
    /\ combinations = <<>>
    /\ combIdx = 1
    /\ prompts = EmptyMap
    /\ recIdx = 1
    /\ report = <<>>
    /\ genCalls = <<>>
    /\ tsRequests = <<>>
    /\ od = OdIdle
    /\ fb = FbIdle

NextSubscription ==
    \/ HandleSubscribe
    \/ HandleUnsubscribe
    \/ RouteReply

SpecSubscription == InitSubscription /\ [][NextSubscription]_vars

\* one subscribe, unsubscribe or update message and its reply, for every
\* users table
InitCommands == InitSubscription

FirstMessage == od.state = "idle"

NextCommands ==
    \/ FirstMessage /\ HandleSubscribe
    \/ FirstMessage /\ handleUnsubscribe
    \/ FirstMessage /\ handleUpdateSkill
    \/ FirstMessage /\ handleUpdateLanguage
    \/ RouteReply

SpecCommands == InitCommands /\ [][NextCommands]_vars

\* one webhook request, for every payload of up to MaxPayloadLen messages
WebhookRows == {UserRow(<<"beginner">>, <<"ro">>, a) : a \in BOOLEAN}

InitWebhook ==
    /\ \E S \in SUBSET Phones : users \in [S -> WebhookRows]
    /\ maxRetries = DefaultMaxRetries
    /\ \E kind \in PayloadKinds, messages \in PayloadMessages :
         /\ kind # "messages" => messages = <<>>
         /\ wh = WhReceived(kind, messages)
    /\ clientDb = TRUE
    /\ logStore = "down"
    /\ usageLog = <<>>
    /\ deliveryLog = <<>>
    /\ cl = ClientIdle
    /\ fetches = 0
    /\ slept = <<>>
    /\ pg = PgIdle
    /\ bulk = BulkIdle
    /\ sendAttempts = <<>>
    /\ pc = "off"
    /\ activeUsers = <<>>
    /\ combinations = <<>>
    /\ combIdx = 1
    /\ prompts = EmptyMap
    /\ recIdx = 1
    /\ report = <<>>
    /\ genCalls = <<>>
    /\ tsRequests = <<>>
    /\ od = OdIdle
    /\ fb = FbIdle

NextWebhook ==
    \/ ParsePayload
    \/ RouteNext
    \/ Respond

SpecWebhook == InitWebhook /\ [][NextWebhook]_vars

\* one parseCommand call, for every message text up to MaxMessageLen atoms
InitParse ==
    /\ users = [p \in {} |-> 0]
    /\ maxRetries = DefaultMaxRetries
    /\ wh = WhIdle
    /\ clientDb = TRUE
    /\ logStore = "down"
    /\ usageLog = <<>>
    /\ deliveryLog = <<>>
    /\ cl = ClientIdle
    /\ fetches = 0
    /\ slept = <<>>
    /\ pg = PgIdle
    /\ bulk = BulkIdle
    /\ sendAttempts = <<>>
    /\ pc = "off"
    /\ activeUsers = <<>>
    /\ combinations = <<>>
    /\ combIdx = 1
    /\ prompts = EmptyMap
    /\ recIdx = 1
    /\ report = <<>>
    /\ genCalls = <<>>
    /\ tsRequests = <<>>
    /\ \E text \in MessageTexts : od = OdArrived(1, text)
    /\ fb = FbIdle

NextParse == ParseMessage

SpecParse == InitParse /\ [][NextParse]_vars

\* one generateImage call, for texts that start with up to MaxLeadLen atoms
\* and go on with some of eleven further words
LeadAtoms == {" ", ",", "The", "sky", "misty", "a'"}

LeadTexts == UNION {[1 .. n -> LeadAtoms] : n \in 0 .. MaxLeadLen}

TailWords ==
    <<"cliffs", "waves", "lantern", "boats", "gulls", "ropes", "nets", "stones",
      "clouds", "light", "mast">>

RECURSIVE TailText(_)
TailText(k) == IF k = 0 THEN <<>> ELSE TailText(k - 1) \o <<" ", TailWords[k]>>

PromptTexts == {lead \o TailText(k) : lead \in LeadTexts, k \in 0 .. Len(TailWords)}

InitKeywords ==
    /\ users = [p \in {} |-> 0]
    /\ maxRetries = DefaultMaxRetries
    /\ wh = WhIdle
    /\ clientDb = TRUE
    /\ logStore = "down"
    /\ usageLog = <<>>
    /\ deliveryLog = <<>>
    /\ \E text \in PromptTexts : cl = ImageCalled(text)
    /\ fetches = 0
    /\ slept = <<>>
    /\ pg = PgIdle
    /\ bulk = BulkIdle
    /\ sendAttempts = <<>>
    /\ pc = "off"
    /\ activeUsers = <<>>
    /\ combinations = <<>>
    /\ combIdx = 1
    /\ prompts = EmptyMap
    /\ recIdx = 1
    /\ report = <<>>
    /\ genCalls = <<>>
    /\ tsRequests = <<>>
    /\ od = OdIdle
    /\ fb = FbIdle

NextKeywords == ImageCallEntry

SpecKeywords == InitKeywords /\ [][NextKeywords]_vars

\* the awaited calls of one generatePromptWithRetry call all come back
SpecGenFair == InitGen /\ [][NextGen]_vars /\ WF_vars(NextGen)

\* one get_prompt message, for every users table and sender
InitOnDemand ==
    /\ \E S \in SUBSET Phones : users \in [S -> UserRows]
    /\ maxRetries \in {0, DefaultMaxRetries}
    /\ wh = WhIdle
    /\ clientDb \in BOOLEAN
    /\ logStore \in {"up", "down"}
    /\ usageLog = <<>>
    /\ deliveryLog = <<>>
    /\ cl = ClientIdle
    /\ fetches = 0
    /\ slept = <<>>
    /\ pg = PgIdle
    /\ bulk = BulkIdle
    /\ sendAttempts = <<>>
    /\ pc = "off"
    /\ activeUsers = <<>>
    /\ combinations = <<>>
    /\ combIdx = 1
    /\ prompts = EmptyMap
    /\ recIdx = 1
    /\ report = <<>>
    /\ genCalls = <<>>
    /\ tsRequests = <<>>
    /\ \E p \in Phones : od = OdRequest(p)
    /\ fb = FbIdle

NextOnDemand ==
    \/ OdLookup
    \/ GenerateTextAttempt
    \/ GenerateImageAttempt
    \/ RetryLoopExit
    \/ PgTextReturned
    \/ PgImageReturned
    \/ PgFallback
    \/ OdSend
    \/ OdStamp
    \/ OdCatch
    \/ RouteReply

SpecOnDemand == InitOnDemand /\ [][NextOnDemand]_vars

\* the batch run of a Scheduler constructed with a generator that may raise
InitAbort ==
    /\ Init
    /\ maxRetries = DefaultMaxRetries
    /\ wh = WhIdle
    /\ logStore = "up"

NextAbort ==
    \/ LoadUsers
    \/ GenerateCall
    \/ InjectedGeneratorEnds
    \/ GenerateStore
    \/ GenerateRaised
    \/ DeliverStart
    \/ BulkSendNext
    \/ BulkReturn
    \/ UpdateTimestamp
    \/ ReportRun

SpecAbort == InitAbort /\ [][NextAbort]_vars

\* the batch run with unsubscribe messages arriving at the webhook meanwhile
InitUnsubscribe ==
    /\ Init
    /\ logStore = "down"

NextUnsubscribe ==
    \/ Next
    \/ HandleUnsubscribe

SpecUnsubscribe == InitUnsubscribe /\ [][NextUnsubscribe]_vars

\* the awaited calls of a batch run all come back
SpecAbortFair == InitAbort /\ [][NextAbort]_vars /\ WF_vars(NextAbort)

\* the batch run of a Scheduler constructed with its generator injected, with
\* subscribe, unsubscribe and update messages handled by the webhook while the
\* run is in progress
InitConcurrent ==
    /\ Init
    /\ maxRetries = DefaultMaxRetries
    /\ logStore = "down"

RunInProgress == pc \in {"generate", "deliver"}

NextConcurrent ==
    \/ NextAbort
    \/ RunInProgress /\ ConcurrentSubscribe
    \/ RunInProgress /\ HandleUnsubscribe
    \/ RunInProgress /\ HandleUpdateSkill
    \/ RunInProgress /\ HandleUpdateLanguage

SpecConcurrent == InitConcurrent /\ [][NextConcurrent]_vars

\* getFallbackPrompt and hasFallbackPrompts called for every pair of arguments
InitFallback ==
    /\ users = [p \in {} |-> 0]
    /\ maxRetries = DefaultMaxRetries
    /\ wh = WhIdle
    /\ clientDb = TRUE
    /\ logStore = "up"
    /\ usageLog = <<>>
    /\ deliveryLog = <<>>
    /\ cl = ClientIdle
    /\ fetches = 0
    /\ slept = <<>>
    /\ pg = PgIdle
    /\ bulk = BulkIdle
    /\ sendAttempts = <<>>
    /\ pc = "off"
    /\ activeUsers = <<>>
    /\ combinations = <<>>
    /\ combIdx = 1
    /\ prompts = EmptyMap
    /\ recIdx = 1
    /\ report = <<>>
    /\ genCalls = <<>>
    /\ tsRequests = <<>>
    /\ od = OdIdle
    /\ \E s \in FallbackSkillInputs, l \in FallbackLanguageInputs :
         fb = FbArgs(s, l)

NextFallback ==
    \/ GetFallbackCall
    \/ HasFallbackCall

SpecFallback == InitFallback /\ [][NextFallback]_vars

----------------------------------------------------------------------------
(* Properties *)

PairsOf(list) == {<<list[i].skillLevel, list[i].language>> : i \in 1 .. Len(list)}

NoDuplicates(s) == \A i, j \in 1 .. Len(s) : s[i] = s[j] => i = j

IsFailedAttempt(a) == ~a.success
IsSuccessfulAttempt(a) == a.success

PhonesOf(s) == [i \in 1 .. Len(s) |-> s[i].phoneNumber]

FailedSends == SelectSeq(sendAttempts, IsFailedAttempt)
SuccessfulSends == SelectSeq(sendAttempts, IsSuccessfulAttempt)

\* C1: in a batch run generatePromptWithRetry is called exactly once for each
\* distinct (skill level, language) pair of the snapshot and for no other pair;
\* once generation is over the number of calls is the number of distinct pairs.
C1_OneGenerationPerPair ==
    /\ NoDuplicates(genCalls)
    /\ SeqRange(genCalls) \subseteq PairsOf(activeUsers)
    /\ pc \in {"deliver", "completed"} =>
         /\ SeqRange(genCalls) = PairsOf(activeUsers)
         /\ Len(genCalls) = Cardinality(PairsOf(activeUsers))

\* two subscribers share a pair and the run made one generation call
C1_Witness ==
    /\ pc = "completed"
    /\ Len(activeUsers) = 2
    /\ Len(genCalls) = 1

CatalogPrompts(skillLevel, language) ==
    {WithPair(CatalogLookup(getCombinationKey(skillLevel, language))[i],
              skillLevel, language) :
        i \in 1 .. Len(CatalogLookup(getCombinationKey(skillLevel, language)))}

\* C2: generatePromptWithRetry never raises; what it returns has a non-empty
\* text and a non-empty image URL and carries the requested pair, and when a
\* client call raised it is a catalog prompt of that same pair.
C2_AlwaysAPrompt ==
    /\ pg.state # "raised"
    /\ pg.state = "returned" =>
         /\ Len(pg.result.text) > 0
         /\ Len(pg.result.imageUrl) > 0
         /\ pg.result.skillLevel = pg.skillLevel
         /\ pg.result.language = pg.language
         /\ cl.state = "raised" =>
              pg.result \in CatalogPrompts(pg.skillLevel, pg.language)

\* the image call failed on every attempt after the text call had succeeded,
\* and the call returned
C2_Witness ==
    /\ pg.state = "returned"
    /\ cl.state = "raised" /\ cl.op = "image"
    /\ maxRetries = DefaultMaxRetries /\ fetches = DefaultMaxRetries

\* C3: when sendBulkMessages returns for M messages of which N sends failed,
\* totalSent = M - N, totalFailed = N and failures holds the N failed
\* recipients, in order; the call never ends by raising.
C3_BulkCounts ==
    /\ bulk.state # "raised"
    /\ bulk.state = "returned" =>
         /\ Len(sendAttempts) = Len(bulk.messages)
         /\ bulk.totalSent = Len(bulk.messages) - Len(FailedSends)
         /\ bulk.totalFailed = Len(FailedSends)
         /\ Len(bulk.failures) = Len(FailedSends)
         /\ PhonesOf(bulk.failures) = PhonesOf(FailedSends)

\* three messages, two of the sends failed
C3_Witness ==
    /\ bulk.state = "returned"
    /\ Len(bulk.messages) = 3
    /\ bulk.totalFailed = 2 /\ bulk.totalSent = 1

C5_EmptyRun ==
    (pc # "start" /\ Len(activeUsers) = 0) =>
        /\ pc = "emptyRun"
        /\ Len(report) = 1
        /\ report[1].totalUsers = 0
        /\ report[1].successCount = 0
        /\ report[1].failureCount = 0
        /\ report[1].promptsGenerated = 0
        /\ genCalls = <<>> /\ pg.state = "idle" /\ cl.state = "idle"
        /\ sendAttempts = <<>> /\ bulk.state = "idle"
        /\ tsRequests = <<>>

\* the table has rows, none of them active, and the run has returned
C5_Witness ==
    /\ pc = "emptyRun"
    /\ DOMAIN users # {}

C6_RetryInvariant ==
    /\ cl.state = "try" => fetches = cl.attempt
    /\ (cl.state = "try" /\ maxRetries > 0) => cl.attempt < maxRetries
    /\ cl.state # "idle" => fetches <= maxRetries
    /\ cl.state = "returned" => fetches = cl.attempt + 1
    /\ cl.state = "raised" => fetches = maxRetries

\* C6: a generateTextPrompt or generateImage call makes at most maxRetries
\* requests, returns at the first one that succeeds, raises once all of them
\* have failed, and always ends.
C6_BoundedRetry ==
    /\ []C6_RetryInvariant
    /\ (cl.state = "try") ~> (cl.state \in {"returned", "raised"})

\* a text call with the default bound raised after three failed requests
C6_Witness ==
    /\ cl.state = "raised" /\ cl.op = "text"
    /\ maxRetries = DefaultMaxRetries
    /\ fetches = DefaultMaxRetries

\* C7: a call that fails on all 3 attempts of the default bound has slept
\* base, 2 x base and 4 x base.
C7_ThreeDelays ==
    (cl.state = "raised" /\ maxRetries = DefaultMaxRetries
        /\ fetches = DefaultMaxRetries) =>
        slept = <<RetryDelayMs, 2 * RetryDelayMs, 4 * RetryDelayMs>>

C8_GenerationFirst ==
    (pc \in {"deliver", "completed", "aborted"} \/ bulk.state # "idle"
        \/ sendAttempts # <<>>) =>
        /\ pg.state = "idle"
        /\ cl.state # "try"
        /\ combIdx > Len(combinations)
        /\ Len(genCalls) = Len(combinations)
        /\ \A i \in 1 .. Len(activeUsers) :
             getCombinationKey(activeUsers[i].skillLevel, activeUsers[i].language)
                 \in DOMAIN prompts

\* C8: nothing is sent before every generation call of the run has returned
\* and every subscriber's pair has its prompt, and the prompt map is not
\* written once sendBulkMessages has been called.
C8_GenerateThenSend ==
    /\ []C8_GenerationFirst
    /\ [][bulk.state # "idle" => prompts' = prompts]_vars

\* a send has been made in a run that generated for two pairs
C8_Witness ==
    /\ pc = "deliver"
    /\ sendAttempts # <<>>
    /\ Len(combinations) = 2

C9_OnlyAfterSuccess ==
    /\ NoDuplicates(tsRequests)
    /\ \A i \in 1 .. Len(tsRequests) :
         \E j \in 1 .. Len(sendAttempts) :
            /\ sendAttempts[j].phoneNumber = tsRequests[i]
            /\ sendAttempts[j].success
    /\ \A p \in DOMAIN users :
         users[p].lastPromptSent = "now" => p \in SeqRange(tsRequests)
    /\ pc = "completed" =>
         \A j \in 1 .. Len(sendAttempts) :
            sendAttempts[j].success =>
                sendAttempts[j].phoneNumber \in SeqRange(tsRequests)

C9_OtherFieldsKept ==
    /\ DOMAIN users' = DOMAIN users
    /\ \A p \in DOMAIN users :
         /\ users'[p].skillLevel = users[p].skillLevel
         /\ users'[p].language = users[p].language
         /\ users'[p].isActive = users[p].isActive

\* C9: updateLastPromptSent is requested for a subscriber exactly when its send
\* of this run succeeded, never before that send, and the run changes neither
\* the skill level, the language nor the active flag of any row.
C9_TimestampIffSent ==
    /\ []C9_OnlyAfterSuccess
    /\ [][C9_OtherFieldsKept]_vars

\* one send succeeded and its row was stamped, another failed and was not
C9_Witness ==
    /\ pc = "completed"
    /\ \E i, j \in 1 .. Len(sendAttempts) :
         /\ sendAttempts[i].success
         /\ users[sendAttempts[i].phoneNumber].lastPromptSent = "now"
         /\ ~sendAttempts[j].success
         /\ users[sendAttempts[j].phoneNumber].lastPromptSent = "null"

TimestampUpdateFailed ==
    \E i \in 1 .. Len(tsRequests) : users[tsRequests[i]].lastPromptSent = "null"

\* the successful recipients among the first n users of the snapshot, in order
RECURSIVE SentAmong(_)
SentAmong(n) ==
    IF n = 0 THEN <<>>
    ELSE IF \E j \in 1 .. Len(sendAttempts) :
              /\ sendAttempts[j].phoneNumber = activeUsers[n].phoneNumber
              /\ sendAttempts[j].success
         THEN Append(SentAmong(n - 1), activeUsers[n].phoneNumber)
         ELSE SentAmong(n - 1)

\* C10: a failed timestamp update does not abort the run, the users after it
\* in the snapshot still get their update requested, and the report counts the
\* sends as sendBulkMessages returned them.
C10_TimestampFailureIsolated ==
    /\ TimestampUpdateFailed => pc \in {"deliver", "completed"}
    /\ (pc = "deliver" /\ bulk.state = "returned") =>
         tsRequests = SentAmong(recIdx - 1)
    /\ pc = "completed" =>
         /\ tsRequests = SentAmong(Len(activeUsers))
         /\ report[1].successCount = Len(SuccessfulSends)
         /\ report[1].failureCount = Len(FailedSends)

\* the first update failed, the second was made, the report counts both sends
C10_Witness ==
    /\ pc = "completed"
    /\ Len(tsRequests) = 2
    /\ users[tsRequests[1]].lastPromptSent = "null"
    /\ users[tsRequests[2]].lastPromptSent = "now"
    /\ report[1].successCount = 2

IsPromptSend(x) == x.operation = "send_message_with_image"
IsReplySend(x) == x.operation = "send_message"

PromptSends == SelectSeq(od.sends, IsPromptSend)
ReplySends == SelectSeq(od.sends, IsReplySend)

NotSubscribedReply == getMessage("error_not_subscribed", DEFAULT_LANGUAGE)

RequesterNotSubscribed ==
    od.phoneNumber \notin DOMAIN users \/ ~users[od.phoneNumber].isActive

\* C11: for a sender that has no row or an inactive row, handleGetPrompt ends
\* by returning a message (it has no raising exit), makes no
\* generatePromptWithRetry call, no prompt send and no timestamp update, and
\* once its lookup has answered the message is the 'not subscribed' one.
C11_NotSubscribed ==
    RequesterNotSubscribed =>
        /\ od.state \in {"received", "failed", "returned", "done"}
        /\ genCalls = <<>> /\ pg.state = "idle" /\ cl.state = "idle"
        /\ PromptSends = <<>>
        /\ tsRequests = <<>>
        /\ \A p \in DOMAIN users : users[p].lastPromptSent = "null"
        /\ (od.state \in {"returned", "done"} /\ od.lookup # "threw") =>
             od.reply = NotSubscribedReply

\* an inactive subscriber asked for a prompt and was sent the message
C11_Witness ==
    /\ od.state = "done"
    /\ od.lookup = "inactive"
    /\ od.reply = NotSubscribedReply
    /\ Len(ReplySends) = 1 /\ ReplySends[1].result.success

GeneralErrorReplies == {getMessage("error_general", l) : l \in Languages}

PromptDelivered ==
    /\ Len(PromptSends) = 1
    /\ ~PromptSends[1].raised
    /\ PromptSends[1].result.success

PromptSendRefused ==
    /\ Len(PromptSends) = 1
    /\ ~PromptSends[1].raised
    /\ ~PromptSends[1].result.success

RequesterStamped ==
    /\ od.phoneNumber \in DOMAIN users
    /\ users[od.phoneNumber].lastPromptSent = "now"

C13_GenerateSendStamp ==
    od.lookup = "active" =>
        /\ genCalls = <<<<users[od.phoneNumber].skillLevel,
                          users[od.phoneNumber].language>>>>
        /\ od.state = "generating" => od.sends = <<>> /\ tsRequests = <<>>
        /\ od.state # "generating" =>
             /\ pg.state = "returned"
             /\ Len(PromptSends) = 1
             /\ od.sends[1] = PromptSends[1]
        /\ tsRequests # <<>> =>
             /\ PromptDelivered
             /\ tsRequests = <<od.phoneNumber>>
        /\ (od.state # "stamping" /\ PromptDelivered) =>
             tsRequests = <<od.phoneNumber>>

\* an active subscriber got a generated prompt and the row was stamped
C13_Witness ==
    /\ od.state = "done"
    /\ od.lookup = "active"
    /\ cl.state = "returned" /\ cl.op = "image"
    /\ PromptDelivered
    /\ RequesterStamped
    /\ od.reply = <<>>

ValidFallback(result) ==
    result # <<>> =>
        /\ Len(result[1].text) > 0
        /\ Len(result[1].imageUrl) > 0
        /\ result[1].skillLevel = fb.skillLevel
        /\ result[1].language = fb.language
        /\ hasFallbackPrompts(fb.skillLevel, fb.language) =>
             \E i \in 1 .. Len(fallbackPromptsData[getCombinationKey(fb.skillLevel,
                                                                     fb.language)]) :
                LET entry == fallbackPromptsData[getCombinationKey(fb.skillLevel,
                                                                   fb.language)][i]
                IN  /\ result[1].text = entry.text
                    /\ result[1].imageUrl = entry.imageUrl

\* C14: every getFallbackPrompt call, the first and each repeated one with the
\* same arguments, returns a prompt with a non-empty text and image URL whose
\* skill level and language are the arguments and whose text and image are
\* those of one entry stored under that exact key, when the key has entries.
C14_FallbackValid ==
    /\ ValidFallback(fb.result)
    /\ ValidFallback(fb.previous)
    /\ fb.calls > 0 => fb.result # <<>>

\* two calls for the same pair returned two different candidates of that pair
C14_Witness ==
    /\ fb.calls = 2
    /\ fb.skillLevel = <<"intermediate">> /\ fb.language = <<"ro">>
    /\ fb.result # fb.previous
    /\ fb.previous # <<>>

\* C15: getFallbackPrompt always returns: for a key without entries it returns
\* an entry stored for the same skill level under English, with the arguments
\* as its pair, and when there is none either the hard-coded prompt;
\* hasFallbackPrompts answers true exactly when the result comes from the
\* key's own entries.
C15_FallbackChain ==
    /\ fb.calls > 0 => fb.result # <<>>
    /\ fb.result # <<>> =>
         LET own == getCombinationKey(fb.skillLevel, fb.language)
             english == getCombinationKey(fb.skillLevel, <<"en">>)
         IN  /\ (own \notin DOMAIN fallbackPromptsData
                    /\ english \in DOMAIN fallbackPromptsData) =>
                    \E i \in 1 .. Len(fallbackPromptsData[english]) :
                       fb.result[1] = [text |-> fallbackPromptsData[english][i].text,
                                       imageUrl |->
                                           fallbackPromptsData[english][i].imageUrl,
                                       skillLevel |-> fb.skillLevel,
                                       language |-> fb.language]
             /\ (own \notin DOMAIN fallbackPromptsData
                    /\ english \notin DOMAIN fallbackPromptsData) =>
                    fb.result[1] =
                        [text |-> <<"Paint something that inspires you today.">>,
                         imageUrl |->
                             <<"https://imagedelivery.net/placeholder/default.jpg">>,
                         skillLevel |-> fb.skillLevel, language |-> fb.language]
             /\ fb.has # <<>> =>
                    fb.has[1] = (own \in DOMAIN fallbackPromptsData)

\* a language without entries: the prompt is taken from the English list of the
\* skill level and hasFallbackPrompts answered false
C15_Witness ==
    /\ fb.skillLevel = <<"advanced">> /\ fb.language = <<"fr">>
    /\ fb.result # <<>>
    /\ fb.result[1].text = <<"advanced-figurative-en">>
    /\ fb.has = <<FALSE>>

\* C16: no sendMessage or sendMessageWithImage call raises; a transport error,
\* a non-2xx response and an unparsable body each give success = false with a
\* non-empty error detail, and success = true is given only for a 2xx response
\* whose body was parsed.
C16_SendNeverRaises ==
    \A i \in 1 .. Len(od.sends) :
        /\ ~od.sends[i].raised
        /\ od.sends[i].outcome \in {"throws", "non2xx", "badjson"} =>
             /\ ~od.sends[i].result.success
             /\ Len(od.sends[i].result.error) > 0
        /\ od.sends[i].result.success <=> od.sends[i].outcome = "ok"

\* a sendMessageWithImage call got an unparsable body and returned a failure,
\* then a sendMessage call hit a transport error and returned one too
C16_Witness ==
    /\ Len(od.sends) = 2
    /\ od.sends[1].operation = "send_message_with_image"
    /\ od.sends[1].outcome = "badjson" /\ ~od.sends[1].result.success
    /\ od.sends[2].operation = "send_message"
    /\ od.sends[2].outcome = "throws" /\ ~od.sends[2].result.success
    /\ od.state = "done"

\* C17: a failed log write changes no outcome. A generation request that came
\* back with a usable answer makes its call return at once, without a further
\* request, and a call returns only on such an answer; sendBulkMessages never
\* raises; the run is never aborted and a completed run returns its report;
\* all of this with the log tables up and with every insert failing.
C17_LogFailureHarmless ==
    /\ cl.lastOk <=> cl.state = "returned"
    /\ cl.state = "returned" => fetches = cl.attempt + 1
    /\ bulk.state # "raised"
    /\ bulk.state = "returned" => Len(sendAttempts) = Len(bulk.messages)
    /\ pc # "aborted"
    /\ pc = "completed" => report = <<DeliveryReport>>
    /\ logStore = "down" => usageLog = <<>> /\ deliveryLog = <<>>

\* every insert failed; the last generation call returned on its first
\* request, a prompt was sent and the run returned its report
C17_Witness ==
    /\ logStore = "down"
    /\ pc = "completed"
    /\ cl.state = "returned" /\ fetches = 1
    /\ report[1].successCount = 1 /\ report[1].failureCount = 1
    /\ deliveryLog = <<>> /\ usageLog = <<>>

\* C18: when a run has returned its report, as an empty run or as a completed
\* one, and the log table takes inserts, the delivery log holds exactly one
\* entry, with the totals of the returned report.
C18_OneLogEntryPerRun ==
    (pc \in {"emptyRun", "completed"} /\ logStore = "up") =>
        /\ Len(report) = 1
        /\ deliveryLog = <<report[1]>>

C19_AbortedClean ==
    pc = "aborted" =>
        /\ pg.state = "raised"
        /\ combIdx <= Len(combinations)
        /\ Len(genCalls) = combIdx
        /\ Cardinality(DOMAIN prompts) = combIdx - 1
        /\ bulk.state = "idle" /\ sendAttempts = <<>>
        /\ tsRequests = <<>>
        /\ \A p \in DOMAIN users : users[p].lastPromptSent = "null"
        /\ report = <<>>
        /\ deliveryLog = <<>>

\* C19: when generatePromptWithRetry raises for a key, the next step of the
\* run is its abort, with no further generation call; in the aborted run no
\* send was attempted, no timestamp update requested, no report returned and
\* none logged, and nothing happens after the abort.
C19_GeneratorRaiseAborts ==
    /\ []C19_AbortedClean
    /\ [][pg.state = "raised" =>
            pc' = "aborted" /\ genCalls' = genCalls /\ prompts' = prompts]_vars
    /\ [][pc # "aborted"]_vars

\* the generator raised for the first of two keys and the run was aborted
\* without a call for the second
C19_Witness ==
    /\ pc = "aborted"
    /\ Len(combinations) = 2
    /\ Len(genCalls) = 1
    /\ pg.state = "raised"

\* C20: no step of a batch run sends a prompt to a user whose row is inactive
\* at that moment, whenever the run loaded its subscribers.
C20_NoSendAfterUnsubscribe ==
    [][Len(sendAttempts') > Len(sendAttempts) =>
         users[sendAttempts'[Len(sendAttempts')].phoneNumber].isActive]_vars

\* the sender's row was deactivated by an unsubscribe and is still in the table
\* when the subscribe message with a tier and a language is handled
ResubscribeHandled ==
    /\ od.command = "subscribe"
    /\ od.state \in {"returned", "done"}
    /\ od.lookup = "inactive"
    /\ od.args[1] \in SkillLevels
    /\ od.args[2] \in Languages
    /\ od.insert # "throws"

\* C21: a sender whose row was deactivated and who sends a subscribe command
\* with a tier and a language is active again, is answered with the
\* subscription confirmation and is among the users the batch run loads
C21_ResubscribeReactivates ==
    ResubscribeHandled =>
        /\ IsSubscribed(getUser(od.phoneNumber))
        /\ od.reply = SubscribedReply(od.args[2])
        /\ \E i \in 1 .. Len(getAllActiveUsers) :
             getAllActiveUsers[i].phoneNumber = od.phoneNumber

\* the commands of the parser's test report, written without the slash
ListedCommands ==
    {<<"help">>, <<"subscribe">>, <<"subscribe", " ", "beginner">>, <<"prompt">>,
     <<"unsubscribe">>, <<"skill", " ", "intermediate">>,
     <<"language", " ", "en">>}

\* C22: a listed command written with a leading slash is parsed to the type
\* and parameters of the same command without the slash, and '/', '/unknown'
\* and the empty message are parsed to unknown
C22_SlashCommands ==
    od.state = "parsed" =>
        /\ \A m \in ListedCommands :
              od.text = <<"/">> \o m =>
                /\ od.command = parseCommand(m).type
                /\ od.args = <<parseCommand(m).skillLevel, parseCommand(m).language>>
        /\ od.text \in {<<"/">>, <<"/", "unknown">>, <<>>} => od.command = "unknown"

\* the usage record a finished call of the running operation has to report
ExpectedUsage(success) ==
    IF cl.op = "text"
    THEN UsageRecord("perplexity", "generate_text_prompt", success)
    ELSE UsageRecord("image_generation", "generate_image", success)

\* a call that has finished, and a call that finished after an attempt
CallFinished == cl.state \in {"returned", "raised"}
CallFinishedAfterAttempt == CallFinished /\ fetches > 0

SnapshotKey(i) ==
    getCombinationKey(activeUsers[i].skillLevel, activeUsers[i].language)

\* sendPromptsToUsers has been entered
DeliverEntered == pc \in {"deliver", "completed"} \/ bulk.state # "idle"

\* C24: the send tasks of a run are one per subscriber of the snapshot, in
\* order, each with the text and image of the prompt stored for the
\* subscriber's own pair, a prompt made for that pair; the run never stops on
\* a missing prompt once the generation loop has run to its end
C24_OwnPromptPerSubscriber ==
    /\ pc # "aborted"
    /\ DeliverEntered =>
         /\ Len(bulk.messages) = Len(activeUsers)
         /\ \A i \in 1 .. Len(activeUsers) :
               /\ SnapshotKey(i) \in DOMAIN prompts
               /\ bulk.messages[i].phoneNumber = activeUsers[i].phoneNumber
               /\ bulk.messages[i].message = prompts[SnapshotKey(i)].text
               /\ bulk.messages[i].imageUrl = prompts[SnapshotKey(i)].imageUrl
               /\ prompts[SnapshotKey(i)].skillLevel = activeUsers[i].skillLevel
               /\ prompts[SnapshotKey(i)].language = activeUsers[i].language

\* two subscribers of different pairs whose stored prompts differ, both with
\* a send task
C24_Witness ==
    /\ pc = "deliver"
    /\ Len(activeUsers) = 2
    /\ SnapshotKey(1) # SnapshotKey(2)
    /\ Len(bulk.messages) = 2
    /\ bulk.messages[1].message # bulk.messages[2].message

\* the distinct (tier, language) pairs of the snapshot
SnapshotPairs ==
    {<<activeUsers[i].skillLevel, activeUsers[i].language>> :
        i \in 1 .. Len(activeUsers)}

\* C25: in every report a run returns, successCount + failureCount =
\* totalUsers = the number of subscribers of the snapshot, and
\* promptsGenerated = the number of distinct pairs of the snapshot
C25_ReportTotals ==
    report # <<>> =>
        /\ report[1].successCount + report[1].failureCount = report[1].totalUsers
        /\ report[1].totalUsers = Len(activeUsers)
        /\ report[1].promptsGenerated = Cardinality(SnapshotPairs)

\* a completed run over two subscribers of one pair, one send failed
C25_Witness ==
    /\ pc = "completed"
    /\ report # <<>>
    /\ Len(activeUsers) = 2
    /\ Cardinality(SnapshotPairs) = 1
    /\ report[1].successCount = 1
    /\ report[1].failureCount = 1

\* the table no longer agrees with the snapshot on its i-th subscriber
ChangedSinceSnapshot(i) ==
    LET u == activeUsers[i]
    IN  \/ ~users[u.phoneNumber].isActive
        \/ users[u.phoneNumber].skillLevel # u.skillLevel
        \/ users[u.phoneNumber].language # u.language

\* a number subscribed since the snapshot was read
SubscribedSinceSnapshot ==
    \E p \in DOMAIN users :
        /\ users[p].isActive
        /\ \A i \in 1 .. Len(activeUsers) : activeUsers[i].phoneNumber # p

RunStep ==
    CASE pc = "start" -> 0
      [] pc = "generate" -> 1
      [] pc = "deliver" /\ bulk.state = "returned" /\ recIdx <= Len(activeUsers) -> 3
      [] pc = "deliver" /\ bulk.state = "returned" /\ recIdx > Len(activeUsers) -> 4
      [] pc = "deliver" -> 2
      [] OTHER -> 5

RunEnded == pc \in {"emptyRun", "completed", "aborted"}

\* what each way of ending leaves behind
RunEndedAs ==
    /\ pc = "emptyRun" => activeUsers = <<>> /\ report = <<createEmptyReport>>
    /\ pc = "completed" =>
          /\ report # <<>>
          /\ Len(sendAttempts) = Len(activeUsers)
          /\ Len(activeUsers) > 0
    /\ pc = "aborted" => report = <<>>

\* C27: a run never goes back to an earlier step, ends as an empty run, a
\* completed run or an aborted run whose error left executeDailyDelivery
\* without a report, does nothing once it has ended, and always ends when its
\* awaited calls come back
C27_LinearRun ==
    /\ [][RunStep' >= RunStep]_vars
    /\ [][RunEnded => UNCHANGED vars]_vars
    /\ []RunEndedAs
    /\ <>RunEnded

\* a run that was aborted in the generation step after it had stored the
\* prompt of an earlier pair
C27_Witness ==
    /\ pc = "aborted"
    /\ Cardinality(DOMAIN prompts) = 1
    /\ Len(genCalls) = 2

\* a text with at least one atom that is not a space
HasInk(text) == \E i \in 1 .. Len(text) : text[i] # " "

\* a response with a 2xx status, a choice and a string content with ink
UsableTextResponse(resp) ==
    /\ resp.fetch = "ok"
    /\ resp.choices > 0
    /\ resp.isString
    /\ resp.content # Undefined
    /\ HasInk(resp.content)

\* every response that is not usable ends the attempt as a transport error
\* does, and a usable one gives its trimmed content
TextAttemptOutcomes ==
    \A resp \in TextApiResponses :
        IF UsableTextResponse(resp)
        THEN TextAttempt(resp) = Returned(Trim(resp.content))
        ELSE TextAttempt(resp) = TextAttempt([fetch |-> "throws"])

\* the text a finished generateTextPrompt call returned
TextReturnedTrimmed ==
    (cl.op = "text" /\ cl.state = "returned") =>
        /\ HasInk(cl.result)
        /\ Head(cl.result) # " "
        /\ cl.result[Len(cl.result)] # " "
        /\ \E resp \in TextApiResponses :
              UsableTextResponse(resp) /\ cl.result = Trim(resp.content)

\* a text attempt that did not give a usable answer ends the call when it was
\* the last one, and is otherwise followed by the backoff delay and the next
\* attempt
FailedTextAttemptRetried ==
    (cl.op = "text" /\ cl.state = "try" /\ fetches' = fetches + 1 /\ ~cl'.lastOk) =>
        IF cl.attempt = maxRetries - 1
        THEN cl'.state = "raised" /\ slept' = slept
        ELSE /\ cl'.state = "try"
             /\ cl'.attempt = cl.attempt + 1
             /\ slept' = Append(slept, RetryDelayMs * Pow2(cl.attempt))

\* C28: generateTextPrompt never returns an empty or whitespace-only text; a
\* non-2xx status, no choices, a content that is not a string or is empty
\* after trimming fail the attempt as a transport error does and the attempt
\* is retried the same way; the text returned is the trimmed content
C28_TrimmedOrFailed ==
    /\ []TextAttemptOutcomes
    /\ []TextReturnedTrimmed
    /\ [][FailedTextAttemptRetried]_vars

\* a text call returned on its third attempt, after two failed ones
C28_Witness ==
    /\ cl.op = "text" /\ cl.state = "returned"
    /\ fetches = 3
    /\ Len(slept) = 2
    /\ cl.result = GoodIdea

\* the returned prompt is the text and the image URL the client returned
EntirelyGenerated ==
    /\ cl.op = "image" /\ cl.state = "returned"
    /\ pg.text # <<>>
    /\ pg.result = GeneratedPrompt(pg.text, cl.result, pg.skillLevel, pg.language)

\* the returned prompt is one entry of the catalog, text and image together
EntirelyFallback ==
    /\ cl.state = "raised"
    /\ pg.result \in CatalogPrompts(pg.skillLevel, pg.language)
    /\ pg.result.text # pg.text
    /\ pg.result.imageUrl # GeneratedImageUrl

\* C29: a prompt returned by generatePromptWithRetry is the generated text
\* with the generated image, or one catalog entry's text with its image; when
\* the text was generated and the image call raised, the generated text is
\* not in the prompt
C29_GeneratedOrFallback ==
    pg.state = "returned" =>
        /\ EntirelyGenerated \/ EntirelyFallback
        /\ ~(EntirelyGenerated /\ EntirelyFallback)

\* the text was generated, the image call raised, and the call returned a
\* catalog prompt
C29_Witness ==
    /\ pg.state = "returned"
    /\ pg.text = GoodIdea
    /\ cl.op = "image" /\ cl.state = "raised"
    /\ pg.result.text # GoodIdea

\* the text step ended, and how
TextStepReturned == cl.op = "text" /\ cl.state = "returned"
TextStepRaised == cl.op = "text" /\ cl.state = "raised"

\* the image call starts in the step that takes the returned text, with that
\* text and a request count of its own, and in no other step
ImageAfterText ==
    (cl'.op = "image" /\ cl.op # "image") =>
        /\ TextStepReturned
        /\ cl'.promptText = cl.result
        /\ pg'.text = cl.result
        /\ cl'.attempt = 0 /\ fetches' = 0

\* no image call follows a text call that raised, and no text call follows
\* the image call
NoImageAfterFailedText ==
    /\ TextStepRaised => cl'.op = "text" /\ fetches' = fetches
    /\ cl.op = "image" => cl'.op = "image"

\* each of the two calls stays within the client's maxRetries
WithinClientBudget ==
    /\ cl.op \in {"text", "image"} => fetches <= maxRetries
    /\ cl.op = "image" => cl.promptText = pg.text /\ pg.text # <<>>

\* C30: within one generatePromptWithRetry call the image call starts only
\* once the text call has returned and is given its text, no image call is
\* made when the text call raised, and the text call and the image call each
\* make at most the client's maxRetries requests whatever maxRetries argument
\* the call was given
C30_TextThenImage ==
    /\ [][ImageAfterText]_vars
    /\ [][NoImageAfterFailedText]_vars
    /\ []WithinClientBudget

\* a call given a maxRetries argument of 1, with a client bound of 3, whose
\* image call, given the generated text, has made three requests
C30_Witness ==
    /\ pg.maxRetries = 1
    /\ maxRetries = DefaultMaxRetries
    /\ cl.op = "image" /\ cl.promptText = GoodIdea
    /\ fetches = DefaultMaxRetries
    /\ Len(usageLog) = 1

\* the tokens of the text of the image call: lower-cased, everything that is
\* not a word character taken for a space
TextTokens ==
    SelectSeq(Split(StripNonWord(ToLowerCase(cl.promptText)), " "), NonEmptyWord)

\* the keywords of the image call, as a list of words
KeywordWords == SplitWords(cl.keywords)

StopWord(w) == Len(w) = 1 /\ w[1] \in fillerWords
LongWord(w) == WordLength(w) > 3

\* the distinct tokens before position i that are not stop words, and those
\* of them that are longer than three characters
NonStopBefore(i) == {TextTokens[j] : j \in {k \in 1 .. i - 1 : ~StopWord(TextTokens[k])}}
KeptBefore(i) ==
    {TextTokens[j] :
        j \in {k \in 1 .. i - 1 : ~StopWord(TextTokens[k]) /\ LongWord(TextTokens[k])}}

IsKeyword(w) == \E i \in 1 .. Len(KeywordWords) : KeywordWords[i] = w

\* at most 10 keywords, none twice, none a stop word
KeywordsCompact ==
    /\ Len(KeywordWords) <= 10
    /\ NoDuplicates(KeywordWords)
    /\ \A i \in 1 .. Len(KeywordWords) : ~StopWord(KeywordWords[i])

ImageCallEntered == cl.op = "image" /\ cl.state = "try"

HandlerReturns(command, phoneNumber) ==
    /\ od.state # "returned"
    /\ od'.state = "returned"
    /\ od'.command = command
    /\ od'.phoneNumber = phoneNumber

\* the sender has a row and the row is active
ActiveRow(phoneNumber) == phoneNumber \in DOMAIN users /\ users[phoneNumber].isActive

\* C32: a subscribe command of an active subscriber leaves the users table as
\* it is and, when the lookup answered, is replied to with the
\* already-subscribed message in the subscriber's language; an unsubscribe,
\* update-skill or update-language command of a sender without a row or with
\* an inactive row leaves the users table as it is and, when the lookup
\* answered, is replied to with the not-subscribed message
C32_WrongSenderChangesNothing ==
    [][\A p \in Phones :
          /\ (HandlerReturns("subscribe", p) /\ ActiveRow(p)) =>
                /\ users' = users
                /\ od'.lookup \in {"active", "threw"}
                /\ od'.lookup = "active" =>
                      od'.reply = getMessage("error_already_subscribed",
                                             users[p].language)
          /\ \A command \in {"unsubscribe", "update_skill", "update_language"} :
                (HandlerReturns(command, p) /\ ~ActiveRow(p)) =>
                    /\ users' = users
                    /\ od'.lookup \in {"absent", "inactive", "threw"}
                    /\ od'.lookup # "threw" =>
                          od'.reply = getMessage("error_not_subscribed",
                                                 DEFAULT_LANGUAGE)]_vars

\* an active subscriber's subscribe command has been answered with the
\* already-subscribed message
C32_Witness ==
    /\ od.state = "returned"
    /\ od.command = "subscribe"
    /\ od.lookup = "active"
    /\ ActiveRow(od.phoneNumber)
    /\ od.reply = getMessage("error_already_subscribed", users[od.phoneNumber].language)

Responded == wh.state = "responded"

FirstUnreadable(messages) ==
    LET unreadable == {i \in 1 .. Len(messages) :
                          messages[i].type = "text" /\ messages[i].body = NotAString}
    IN  IF unreadable = {} THEN Len(messages) + 1
        ELSE CHOOSE i \in unreadable : \A j \in unreadable : i <= j

\* the text messages the loop has passed, or will have passed when it ends
TextMessagesUpTo(n) == SelectSeq(SubSeq(wh.messages, 1, n), IsTextMessage)

RoutedAre(expected) ==
    /\ Len(wh.routed) = Len(expected)
    /\ \A i \in 1 .. Len(expected) :
          /\ wh.routed[i].from = expected[i].from
          /\ wh.routed[i].text = expected[i].body
          /\ wh.routed[i].command = parseCommand(expected[i].body).type
          /\ wh.routed[i].command \in {"help", "unsubscribe"}

\* C34: while the loop runs the routeMessage calls made are those of the text
\* messages passed so far, in payload order, each with the command of its
\* text; at the response they are those of all text messages that precede the
\* first body that is not a string, whatever was thrown or failed in the calls
C34_EveryTextMessageRouted ==
    /\ wh.state = "routing" => RoutedAre(TextMessagesUpTo(wh.idx - 1))
    /\ (Responded /\ wh.kind = "messages") =>
          RoutedAre(TextMessagesUpTo(FirstUnreadable(wh.messages) - 1))

\* an error was caught in the routeMessage call of the first of two text
\* messages and the second was routed all the same
C34_Witness ==
    /\ Responded
    /\ Len(wh.messages) = 2
    /\ Len(wh.routed) = 2
    /\ wh.routed[1].outcome = "caught"
    /\ wh.routed[1].command = "help"
    /\ wh.routed[2].command = "unsubscribe"
    /\ wh.routed[2].outcome = "sent"

\* C35: once the prompt send of an on-demand request has succeeded the
\* handler returns the empty reply, so that no error message follows the
\* delivered prompt, whether or not the timestamp update went through
C35_DeliveredThenSilent ==
    (od.state \in {"returned", "done"} /\ PromptDelivered) =>
        /\ od.reply = <<>>
        /\ ReplySends = <<>>

\* C36: whatever maxRetries the client was built with, a generateTextPrompt or
\* generateImage call that raises has made at least one request to the
\* generation service
C36_AttemptBeforeFailure ==
    (cl.state = "raised" /\ cl.op \in {"text", "image"}) => fetches >= 1

====
